---- MODULE Spec2Model ----
(***************************************************************************)
(* The plan -> execute -> evaluate -> synthesize loop of DocumentAgent      *)
(* (src/app/agent), with the Planner, Executor, Evaluator and Synthesizer   *)
(* it drives.  One behaviour is one call of DocumentAgent.run; the backends *)
(* (Gemini generation, retrieval) answer nondeterministically.  The steps   *)
(* of the generator are cut at its yield statements.                        *)
(***************************************************************************)
EXTENDS Integers, Sequences, FiniteSets, TLC

(***************************************************************************)
(* Configuration (src/app/core/config.py) and model bounds                 *)
(***************************************************************************)
\* settings.agent_max_iterations
agent_max_iterations == 3
\* settings.agent_eval_threshold (7.0; scores are modelled as integers)
agent_eval_threshold == 7
\* the configured settings.agent_max_subtasks explored by the model
MaxSubtasks == 2

\* a value of a JSON list that is not a string (e.g. a number)
NonStr == "<int>"
IsStr(x) == x # NonStr

\* str.strip() on the strings of the model
Strip(s) ==
    CASE s = " " -> ""
      [] s = " q1 " -> "q1"
      [] s = " q2 " -> "q2"
      [] s = " g1 " -> "g1"
      [] s = " goal " -> "goal"
      [] OTHER -> s

Min(a, b) == IF a < b THEN a ELSE b
Last(s) == s[Len(s)]

\* A JSON value found under a key expected to hold a list of strings:
\* a list, a truthy value of another type (e.g. 5), or null/absent.
ListValue(items) == [kind |-> "list", items |-> items]
ScalarValue == [kind |-> "scalar", items |-> <<>>]
NullValue == [kind |-> "null", items |-> <<>>]

\* Python truthiness of such a value
Truthy(v) == v.kind = "scalar" \/ (v.kind = "list" /\ v.items # <<>>)
\* `value or []`
OrEmptyList(v) == IF Truthy(v) THEN v ELSE ListValue(<<>>)

\* the lists a backend may put in "tasks" / "gaps"
RawLists(good) ==
    { <<>>, <<" ">>, <<" ", good>>, <<NonStr>>,
      [i \in 1..(MaxSubtasks + 1) |-> good] }
RawValues(good) ==
    { ListValue(l) : l \in RawLists(good) } \cup { ScalarValue, NullValue }

(***************************************************************************)
(* state.py                                                                *)
(***************************************************************************)
SubTask(id, query) == [id |-> id, query |-> query, status |-> "pending"]
StepResult(task_id, query, context, answer, failed) ==
    [task_id |-> task_id, query |-> query, context |-> context,
     answer |-> answer, failed |-> failed]
EvalResult(score, completeness, accuracy, gaps, sufficient) ==
    [score |-> score, completeness |-> completeness, accuracy |-> accuracy,
     gaps |-> gaps, sufficient |-> sufficient]

(***************************************************************************)
(* planner.py                                                              *)
(***************************************************************************)
\* What planner._call_gemini_raw gives Planner.plan: an exception ("raise":
\* missing key, HTTP error, timeout, no candidates), text that is not JSON,
\* JSON that is not an object (array, scalar, null), or a JSON object whose
\* "tasks" key holds `tasks`.
PlanResponses ==
    { [kind |-> k, tasks |-> NullValue] : k \in {"raise", "notjson", "nonobject"} }
    \cup { [kind |-> "object", tasks |-> t] : t \in RawValues(" q1 ") }

\* a "tasks" value with a sub-question in it: a list whose entries are
\* strings, one of them not blank
UsableTasks(v) ==
    /\ v.kind = "list"
    /\ \A i \in 1..Len(v.items) : IsStr(v.items[i])
    /\ \E i \in 1..Len(v.items) : Strip(v.items[i]) # ""

\* the slice forgotten: no limit on the number of tasks
TruncateNothing(s, n) == s
\* s[:n]
Truncate(s, n) == SubSeq(s, 1, Min(n, Len(s)))

\* [SubTask(id=i, query=q.strip()) for i, q in enumerate(raw) if q.strip()]
\* (i is the 1-based position in raw, the id is i - 1)
RECURSIVE EnumerateTasks(_, _)
EnumerateTasks(raw, i) ==
    IF i > Len(raw) THEN <<>>
    ELSE (IF Strip(raw[i]) # "" THEN <<SubTask(i - 1, Strip(raw[i]))>> ELSE <<>>)
         \o EnumerateTasks(raw, i + 1)

\* The slice and the comprehension shared by _parse_tasks and plan_from_gaps:
\* slicing a non-list raises TypeError, .strip() on a non-string raises
\* AttributeError.
TasksFromValue(v, max_tasks) ==
    IF v.kind # "list" THEN [raised |-> TRUE, tasks |-> <<>>]
    ELSE LET cut == Truncate(v.items, max_tasks) IN
         IF \E i \in 1..Len(cut) : ~IsStr(cut[i])
         THEN [raised |-> TRUE, tasks |-> <<>>]
         ELSE [raised |-> FALSE, tasks |-> EnumerateTasks(cut, 1)]

\* _parse_tasks: only json.JSONDecodeError is caught inside
ParseTasks(resp, goal, max_tasks) ==
    IF resp.kind = "nonobject" THEN [raised |-> TRUE, tasks |-> <<>>]
    ELSE LET parsed == IF resp.kind = "notjson" THEN ListValue(<<>>)
                       ELSE OrEmptyList(resp.tasks)
             tasks_raw == IF ~Truthy(parsed) THEN ListValue(<<goal>>) ELSE parsed
         IN TasksFromValue(tasks_raw, max_tasks)

\* Planner.plan: any exception gives the single-task fallback
PlannerPlan(resp, goal, max_tasks) ==
    IF resp.kind = "raise" \/ ParseTasks(resp, goal, max_tasks).raised
    THEN <<SubTask(0, goal)>>
    ELSE ParseTasks(resp, goal, max_tasks).tasks

\* Planner.plan_from_gaps: no try/except
PlanFromGaps(gaps, max_tasks) == TasksFromValue(gaps, max_tasks)

(***************************************************************************)
(* tools/retrieval.py, tools/answer.py, services/llm_service.py, executor  *)
(***************************************************************************)
\* the chunks retrieve_context + rerank_context give for a query
Corpus(q) ==
    CASE q = "goal" -> <<"c1", "c2">>
      [] q = "q1" -> <<"c2", "c3">>
      [] q = "q2" -> <<"c3", "c4">>
      [] OTHER -> <<>>

\* RetrievalTool.run: any exception of retrieval or rerank gives []
RetrievalRun(query, up) == IF up THEN Corpus(query) ELSE <<>>

\* Outcomes of the HTTP call of generate_answer
GenOutcomes ==
    {"text", "text_errlike", "no_key", "http_status", "network",
     "no_candidates", "no_text", "bad_body"}
\* the outcomes generate_answer turns into LLMServiceError
GenLLMError == {"no_key", "http_status", "network", "no_candidates", "no_text"}
\* a 200 response whose body is not the expected JSON: response.json() or
\* _extract_text raise ValueError / AttributeError, which nothing catches
GenUncaught == {"bad_body"}

\* what the caller can tell apart: text, LLMServiceError, another exception
GenClass(gen) ==
    IF gen \in GenLLMError THEN "llm_error"
    ELSE IF gen \in GenUncaught THEN "uncaught"
    ELSE gen

\* An answer text: `err` says whether it starts with "[ERROR:"
AnswerText(err, body) == [err |-> err, body |-> body]

\* generate_answer + AnswerTool.run
AnswerRun(gen) ==
    CASE gen = "text" -> [raised |-> FALSE, answer |-> AnswerText(FALSE, "a1")]
      [] gen = "text_errlike" -> [raised |-> FALSE, answer |-> AnswerText(TRUE, "exc")]
      [] gen \in GenLLMError -> [raised |-> FALSE, answer |-> AnswerText(TRUE, "exc")]
      [] OTHER -> [raised |-> TRUE, answer |-> AnswerText(FALSE, "")]

\* answer.startswith("[ERROR:")
StartsWithError(answer) == answer.err

\* Executor.execute: the StepResult and the task's final status; when the
\* answer tool raises the status is left at "running"
ExecutorExecute(task, gen, up) ==
    LET context == RetrievalRun(task.query, up)
        a == AnswerRun(gen)
        failed == StartsWithError(a.answer)
    IN IF a.raised
       THEN [raised |-> TRUE, status |-> "running",
             result |-> StepResult(task.id, task.query, context, a.answer, FALSE)]
       ELSE [raised |-> FALSE, status |-> IF failed THEN "failed" ELSE "done",
             result |-> StepResult(task.id, task.query, context, a.answer, failed)]

(***************************************************************************)
(* evaluator.py                                                            *)
(***************************************************************************)
\* a JSON value that float()/int() reject (a word, a list, null)
BadNumber == 0 - 999
IsNumber(x) == x # BadNumber

ScoreValues == {agent_eval_threshold - 1, agent_eval_threshold}

\* What evaluator._call_gemini_raw gives: an exception, non-JSON text, JSON
\* that is not an object, or an object with these fields ("sufficient" may
\* be absent).
EvalObjects ==
    [kind : {"object"}, score : ScoreValues \cup {BadNumber},
     completeness : {4, BadNumber}, accuracy : {4},
     sufficient : {"true", "false", "absent"}, gaps : RawValues(" g1 ")]
EvalOther(k) ==
    [kind |-> k, score |-> 0, completeness |-> 0, accuracy |-> 0,
     sufficient |-> "absent", gaps |-> NullValue]
EvalResponses == EvalObjects \cup { EvalOther(k) : k \in {"raise", "notjson", "nonobject"} }

\* the filter forgotten: failed results kept
KeepAllResults(results) == results
\* [r for r in results if not r.failed]
GoodResults(results) == SelectSeq(results, LAMBDA r : ~r.failed)

\* bool(data.get("sufficient", default))
ClaimedSufficient(claim, default) ==
    CASE claim = "true" -> TRUE
      [] claim = "false" -> FALSE
      [] OTHER -> default

\* the override forgotten: the model's own claim stands
NoThresholdOverride(score, threshold, sufficient) == sufficient
\* if score < threshold: sufficient = False
ThresholdOverride(score, threshold, sufficient) ==
    IF score < threshold THEN FALSE ELSE sufficient

ZeroResult(gaps) == EvalResult(0, 0, 0, gaps, FALSE)

\* _parse_eval: JSONDecodeError, ValueError and TypeError are caught;
\* data.get on a non-object raises AttributeError, which is not
ParseEval(resp, threshold) ==
    IF resp.kind = "nonobject" THEN [raised |-> TRUE, result |-> ZeroResult(ListValue(<<>>))]
    ELSE LET caught == resp.kind = "notjson" \/ ~IsNumber(resp.score)
                       \/ ~IsNumber(resp.completeness) \/ ~IsNumber(resp.accuracy)
             score == IF caught THEN 0 ELSE resp.score
             completeness == IF caught THEN 0 ELSE resp.completeness
             accuracy == IF caught THEN 0 ELSE resp.accuracy
             gaps == IF caught THEN ListValue(<<>>) ELSE OrEmptyList(resp.gaps)
             sufficient == IF caught THEN FALSE
                           ELSE ClaimedSufficient(resp.sufficient, score >= threshold)
         IN [raised |-> FALSE,
             result |-> EvalResult(score, completeness, accuracy, gaps,
                                   ThresholdOverride(score, threshold, sufficient))]

\* a fail-safe that reports the outage as insufficient
FailSafeInsufficient(threshold) == EvalResult(threshold, 3, 3, ListValue(<<>>), FALSE)
\* the fail-safe of Evaluator.evaluate's except clause
FailSafeResult(threshold) == EvalResult(threshold, 3, 3, ListValue(<<>>), TRUE)

\* Evaluator.evaluate: `called` says whether the backend was called and
\* `shown` is the list of results formatted into the prompt
EvaluatorEvaluate(resp, goal, results, threshold) ==
    LET good == GoodResults(results) IN
    IF good = <<>>
    THEN [called |-> FALSE, shown |-> <<>>, result |-> ZeroResult(ListValue(<<goal>>))]
    ELSE [called |-> TRUE, shown |-> good,
          result |-> IF resp.kind = "raise" \/ ParseEval(resp, threshold).raised
                     THEN FailSafeResult(threshold)
                     ELSE ParseEval(resp, threshold).result]

(***************************************************************************)
(* synthesizer.py                                                          *)
(***************************************************************************)
\* Outcomes of synthesizer._call_gemini_raw
SynthOutcomes == {"text", "no_key", "no_candidates", "http_status", "network", "bad_body"}
SynthClass(gen) ==
    IF gen \in {"no_key", "no_candidates"} THEN "llm_error"
    ELSE IF gen \in {"http_status", "network", "bad_body"} THEN "uncaught"
    ELSE gen
\* raised as LLMServiceError by _call_gemini_raw
SynthLLMError == {g \in SynthOutcomes : SynthClass(g) = "llm_error"}
\* httpx.HTTPStatusError / httpx.TransportError / ValueError pass through
SynthUncaught == {g \in SynthOutcomes : SynthClass(g) = "uncaught"}

\* A final answer: the fixed message, the model's text, or the labelled
\* sections "**query**\nanswer" joined by blank lines
NoAnswer == [kind |-> "empty", sections |-> <<>>]
InsufficientMessage == [kind |-> "fixed", sections |-> <<>>]
LLMAnswer == [kind |-> "llm", sections |-> <<>>]
ConcatAnswer(good) ==
    [kind |-> "concat",
     sections |-> [i \in 1..Len(good) |-> <<good[i].query, good[i].answer>>]]

\* _format_context_blocks: first-seen order, exact equality
RECURSIVE DedupChunks(_, _)
DedupChunks(chunks, seen) ==
    IF chunks = <<>> THEN seen
    ELSE DedupChunks(Tail(chunks),
                     IF \E i \in 1..Len(seen) : seen[i] = Head(chunks)
                     THEN seen ELSE Append(seen, Head(chunks)))
RECURSIVE AllChunks(_)
AllChunks(results) ==
    IF results = <<>> THEN <<>>
    ELSE Head(results).context \o AllChunks(Tail(results))
KeepDuplicates(results) == AllChunks(results)
FormatContextBlocks(results) == DedupChunks(AllChunks(results), <<>>)

\* Synthesizer.synthesize: only LLMServiceError is caught
SynthesizerSynthesize(gen, goal, results) ==
    LET good == GoodResults(results) IN
    IF good = <<>>
    THEN [called |-> FALSE, raised |-> FALSE, answer |-> InsufficientMessage, context |-> <<>>]
    ELSE [called |-> TRUE, raised |-> gen \in SynthUncaught,
          answer |-> IF gen = "text" THEN LLMAnswer
                     ELSE IF gen \in SynthLLMError THEN ConcatAnswer(good)
                     ELSE NoAnswer,
          context |-> FormatContextBlocks(good)]

(***************************************************************************)
(* query_intelligence_service.py: analyze_query, choose_pipeline,          *)
(* evaluate_context. Scores are kept as integers: a complexity score in    *)
(* units of 1/900 (0.22 is 198, 0.56 is 504, 0.55 is 495, 0.35 is 315),    *)
(* a rerank score in units of 1/10000 (0.28 is 2800), a coverage as the    *)
(* pair hit_count / number of terms, compared with 35/100.                 *)
(***************************************************************************)
ScoreScale == 900
HintWeight == 198
MultiPartWeight == 198
LengthWeight == 504
LengthTokens == 18
PreferAgentScore == 495
EscalateScore == 315
LowConfidence == 2800
context_min_coverage == 35
context_min_chunks == 2
context_min_chars == 350

Max(a, b) == IF a > b THEN a ELSE b

\* complexity_score = min(1.0, hint_hits * 0.22 + (0.22 if multi_part else 0.0)
\*                             + min(len(info_tokens) / 18.0, 1.0) * 0.56)
ComplexityScore(hint_hits, multi_part, info_tokens) ==
    Min(ScoreScale,
        hint_hits * HintWeight + (IF multi_part THEN MultiPartWeight ELSE 0)
        + (Min(info_tokens, LengthTokens) * LengthWeight) \div LengthTokens)

\* analyze_query: the QueryAnalysis fields the router and the judge read
AnalyzeQuery(q) ==
    LET score == ComplexityScore(q.hint_hits, q.multi_part, q.info_tokens) IN
    [tokens |-> q.info_tokens, complexity_score |-> score,
     prefer_agent |-> score >= PreferAgentScore]

\* _STOP_WORDS and _COMPLEXITY_HINTS
StopWords ==
    {"a", "an", "and", "are", "as", "at", "be", "for", "from", "how", "in", "is",
     "it", "of", "on", "or", "that", "the", "to", "what", "which", "with"}
ComplexityHints ==
    {"compare", "tradeoff", "trade-off", "analyze", "architecture", "design",
     "workflow", "end-to-end", "step by step", "plan", "strategy", "difference",
     "together"}
\* the words that make a query multi-part when they stand between two words
PartWords == {"and", "then", "vs"}

\* A query is the sequence of its lower-cased words, each of two or more
\* letters, none of which holds a hint inside a longer word.
\* _informative_tokens(_tokenize(cleaned))
InformativeTokens(words) == SelectSeq(words, LAMBDA w : w \notin StopWords)
\* sum(hint in low for hint in _COMPLEXITY_HINTS)
HintHits(words) ==
    Cardinality({ h \in ComplexityHints : \E i \in 1..Len(words) : words[i] = h })
\* " and " in low or " then " in low or " vs " in low (no comma, no "?")
MultiPart(words) == \E i \in 2..(Len(words) - 1) : words[i] \in PartWords

\* what analyze_query reads off a query, and whether the request names a
\* conversation
RequestOf(words, conversation) ==
    [hint_hits |-> HintHits(words), multi_part |-> MultiPart(words),
     info_tokens |-> Len(InformativeTokens(words)), conversation |-> conversation]

\* the agent never preferred
NeverAgent(a) == "rag"
\* choose_pipeline
ChoosePipeline(a) == IF a.prefer_agent THEN "agent" ELSE "rag"

\* avg_rank_score: None or a number
NoScore == [given |-> FALSE, value |-> 0]
Score(v) == [given |-> TRUE, value |-> v]

\* What evaluate_context is given. `terms` is the number of distinct query
\* terms longer than 2 characters, `hits` how many of them occur in the
\* joined contexts, `fallback` the number of informative tokens of the first
\* context (all of them occur in the joined contexts), `contexts` the length
\* of each context, `avg` the average rerank score.
JudgeInput(terms, hits, fallback, contexts, avg) ==
    [terms |-> terms, hits |-> hits, fallback |-> fallback,
     contexts |-> contexts, avg |-> avg]

RECURSIVE SumLen(_)
\* sum(len(item) for item in contexts)
SumLen(contexts) ==
    IF contexts = <<>> THEN 0 ELSE Head(contexts) + SumLen(Tail(contexts))

ContextEvaluation(sufficient, hit, of, reason) ==
    [sufficient |-> sufficient, coverage |-> [hit |-> hit, of |-> of],
     reason |-> reason]

\* the boundary excluded
MoreThan(x, min) == x > min
\* x >= settings.context_min_...
AtLeast(x, min) == x >= min

\* the override widened to the boundary
NotAbove(avg, low) == avg.given /\ avg.value <= low
\* avg_rank_score is not None and avg_rank_score < 0.28
LowRerankConfidence(avg, low) == avg.given /\ avg.value < low

\* evaluate_context
EvaluateContext(in) ==
    IF in.contexts = <<>> THEN ContextEvaluation(FALSE, 0, 1, "No chunks retrieved")
    ELSE LET unique_terms == IF in.terms = 0 THEN in.fallback ELSE in.terms
             hit_count == IF in.terms = 0 THEN in.fallback ELSE in.hits
             of == Max(unique_terms, 1)
             enough_chunks == AtLeast(Len(in.contexts), context_min_chunks)
             enough_chars == AtLeast(SumLen(in.contexts), context_min_chars)
             enough_coverage == AtLeast(hit_count * 100, context_min_coverage * of)
             sufficient == enough_chunks /\ enough_chars /\ enough_coverage
         IN IF LowRerankConfidence(in.avg, LowConfidence)
            THEN ContextEvaluation(FALSE, hit_count, of, "Low rerank confidence")
            ELSE ContextEvaluation(sufficient, hit_count, of,
                     IF sufficient THEN "Context appears sufficient"
                     ELSE "Context is thin; escalation recommended")

\* before anything was computed
NoJudgeInput == JudgeInput(0, 0, 0, <<>>, NoScore)
NotJudged == ContextEvaluation(FALSE, 0, 1, "not judged")
NoRequest == [hint_hits |-> 0, multi_part |-> FALSE, info_tokens |-> 0,
              conversation |-> FALSE]
NoAnalysis == [tokens |-> 0, complexity_score |-> 0, prefer_agent |-> FALSE]
NoResult == [status |-> "none", pipeline |-> "", route_reason |-> "",
             judge_reason |-> "", context |-> <<>>, error |-> ""]
NoChatCalls == [history |-> 0, historyFailed |-> 0, retrieve |-> 0, rerank |-> 0,
                judge |-> 0, generate |-> 0, agent |-> 0]

(***************************************************************************)
(* retrieval_service.py: retrieve_context.  A chunk is known by its        *)
(* content; the chunks of a user are distinct and listed oldest first.     *)
(* A fused score is a fraction, kept exact as numerator and denominator.   *)
(***************************************************************************)
rrf_constant == 60
MaxK == 2
MaxCorpus == 3

AllChunkNames == <<"c1", "c2", "c3", "c4", "c5">>
\* the chunks of the requesting user, in order of created_at
UserChunks(n) == SubSeq(AllChunkNames, 1, n)
Range(s) == { s[i] : i \in 1..Len(s) }

\* the rankings a search over the chunks of `corpus` can return under LIMIT
Rankings(corpus, limit) ==
    { r \in UNION { [1..m -> Range(corpus)] : m \in 0..Min(limit, Len(corpus)) } :
        \A i, j \in 1..Len(r) : i # j => r[i] # r[j] }

Reverse(s) == [i \in 1..Len(s) |-> s[Len(s) + 1 - i]]
\* rows[:k]
FirstK(rows, k) == SubSeq(rows, 1, Min(k, Len(rows)))

Frac(n, d) == [num |-> n, den |-> d]
FracAdd(f, g) == Frac(f.num * g.den + g.num * f.den, f.den * g.den)
FracGreater(f, g) == f.num * g.den > g.num * f.den

\* the contribution of one list to the score of x: 1.0 / (rrf_constant + rank)
\* for each position of x in the list (rank from 1), nothing where x is absent
RankTerm(rows, x) ==
    IF \E i \in 1..Len(rows) : rows[i] = x
    THEN Frac(1, rrf_constant + (CHOOSE i \in 1..Len(rows) : rows[i] = x))
    ELSE Frac(0, 1)

\* the keys of the scores dict in insertion order
RECURSIVE FirstSeen(_, _)
FirstSeen(rows, seen) ==
    IF rows = <<>> THEN seen
    ELSE FirstSeen(Tail(rows),
                   IF Head(rows) \in Range(seen) THEN seen ELSE Append(seen, Head(rows)))

\* sorted(..., reverse=True) is stable: an item goes behind every item
\* already placed whose score is not smaller
RECURSIVE PlaceDesc(_, _, _)
PlaceDesc(placed, x, score) ==
    IF placed = <<>> THEN <<x>>
    ELSE IF FracGreater(score[x], score[Head(placed)])
         THEN <<x>> \o placed
         ELSE <<Head(placed)>> \o PlaceDesc(Tail(placed), x, score)
RECURSIVE SortedDesc(_, _, _)
SortedDesc(keys, placed, score) ==
    IF keys = <<>> THEN placed
    ELSE SortedDesc(Tail(keys), PlaceDesc(placed, Head(keys), score), score)

\* _rrf_merge(dense, keyword, k)
HybridScore(dense, keyword, x) == FracAdd(RankTerm(dense, x), RankTerm(keyword, x))
HybridMerge(dense, keyword, k) ==
    LET keys == FirstSeen(dense \o keyword, <<>>)
        scores == [x \in Range(keys) |-> HybridScore(dense, keyword, x)]
    IN FirstK(SortedDesc(keys, <<>>, scores), k)

\* _recent_user_chunks: ORDER BY created_at DESC LIMIT limit, then reversed
RecentUserChunks(corpus, limit) == Reverse(FirstK(Reverse(corpus), limit))

\* what _dense_retrieval does for a query: rows, EmbeddingServiceError out of
\* embed_query, or an exception of db.execute (the similarity query)
DenseOutcomes(corpus, limit) ==
    { [kind |-> "rows", rows |-> r] : r \in Rankings(corpus, limit) }
    \cup { [kind |-> "embedding_error", rows |-> <<>>],
           [kind |-> "query_error", rows |-> <<>>] }

\* what _keyword_retrieval does: rows, or an exception, after which
\* _keyword_fallback gives `fallback`
KeywordOutcomes(corpus, limit) ==
    { [kind |-> "rows", rows |-> r, fallback |-> <<>>] : r \in Rankings(corpus, limit) }
    \cup { [kind |-> "fts_error", rows |-> <<>>, fallback |-> r] :
             r \in Rankings(corpus, limit) }

\* one call retrieve_context(db, query, user_id, k) and what its searches meet
RetrieveCall(blank, k, corpus, dense, keyword) ==
    [blank |-> blank, k |-> k, corpus |-> corpus, dense |-> dense, keyword |-> keyword]
NoRetrieveCall == RetrieveCall(TRUE, 0, <<>>, [kind |-> "none"], [kind |-> "none"])

RetrieveCalls ==
    { RetrieveCall(b, k, UserChunks(n), d, w) :
        b \in BOOLEAN, k \in 1..MaxK, n \in 0..MaxCorpus,
        d \in UNION { DenseOutcomes(UserChunks(m), 3 * MaxK) : m \in 0..MaxCorpus },
        w \in UNION { KeywordOutcomes(UserChunks(m), 3 * MaxK) : m \in 0..MaxCorpus } }

\* the searches of a call look at the caller's chunks and ask for k * 3 rows
\* for a blank query embed_query raises EmbeddingServiceError and no row matches
ValidRetrieveCall(c) ==
    /\ c.dense \in DenseOutcomes(c.corpus, 3 * c.k)
    /\ c.keyword \in KeywordOutcomes(c.corpus, 3 * c.k)
    /\ c.blank => /\ c.dense.kind = "embedding_error"
                  /\ c.keyword.kind = "rows" /\ c.keyword.rows = <<>>

\* try: dense_results = _dense_retrieval(...) except EmbeddingServiceError: []
DenseRaises(dense) == dense.kind = "query_error"
DenseResults(dense) == IF dense.kind = "rows" THEN dense.rows ELSE <<>>

\* try: _keyword_retrieval(...) except Exception: _keyword_fallback(...)
KeywordResults(keyword) ==
    IF keyword.kind = "rows" THEN keyword.rows ELSE keyword.fallback

\* the four returns at the end of retrieve_context
CombineSignals(dense_rows, keyword_rows, corpus, k) ==
    IF dense_rows # <<>> /\ keyword_rows # <<>> THEN HybridMerge(dense_rows, keyword_rows, k)
    ELSE IF dense_rows # <<>> THEN FirstK(dense_rows, k)
    ELSE IF keyword_rows # <<>> THEN FirstK(keyword_rows, k)
    ELSE RecentUserChunks(corpus, k)

\* retrieve_context as a whole
RetrieveContext(c) ==
    IF c.blank THEN [raised |-> FALSE, rows |-> <<>>]
    ELSE IF DenseRaises(c.dense) THEN [raised |-> TRUE, rows |-> <<>>]
    ELSE [raised |-> FALSE,
          rows |-> CombineSignals(DenseResults(c.dense), KeywordResults(c.keyword),
                                  c.corpus, c.k)]

(***************************************************************************)
(* advanced_retrieval_service.py: retrieve_expanded_context.  A query      *)
(* weight is kept in tenths (1.0 is 10, 0.9 is 9) and a fused score in     *)
(* units of 1 / (10 * 61 * 62 * ... * (60 + MaxCandidateK)), which keeps   *)
(* every weight / (60 + rank) an integer.                                  *)
(***************************************************************************)
MaxCandidateK == 2
MaxQueries == 3
FirstQueryWeight == 10
OtherQueryWeight == 9

RECURSIVE ScoreUnit(_)
ScoreUnit(n) == IF n = 0 THEN 1 ELSE (rrf_constant + n) * ScoreUnit(n - 1)

\* query_weight = 1.0 if query_index == 0 else 0.9 (the index is 1-based here)
QueryWeight(query_index) ==
    IF query_index = 1 THEN FirstQueryWeight ELSE OtherQueryWeight

\* scores[chunk] += query_weight / (rrf_constant + rank), over one list
RECURSIVE ListScore(_, _, _, _)
ListScore(rows, x, weight, rank) ==
    IF rows = <<>> THEN 0
    ELSE (IF Head(rows) = x THEN (weight * ScoreUnit(MaxCandidateK)) \div (rrf_constant + rank)
          ELSE 0)
         + ListScore(Tail(rows), x, weight, rank + 1)

RECURSIVE FusedScore(_, _, _)
FusedScore(lists, x, query_index) ==
    IF lists = <<>> THEN 0
    ELSE ListScore(Head(lists), x, QueryWeight(query_index), 1)
         + FusedScore(Tail(lists), x, query_index + 1)

RECURSIVE Concat(_)
Concat(lists) == IF lists = <<>> THEN <<>> ELSE Head(lists) \o Concat(Tail(lists))

\* _rrf_merge(results_by_query, k): integer scores compared as fractions
\* of denominator 1
ExpandedMerge(results_by_query, k) ==
    LET keys == FirstSeen(Concat(results_by_query), <<>>)
        scores == [x \in Range(keys) |-> Frac(FusedScore(results_by_query, x, 1), 1)]
    IN FirstK(SortedDesc(keys, <<>>, scores), k)

\* the three returns at the end of retrieve_expanded_context
FuseRanked(all_rows, candidate_k) ==
    IF all_rows = <<>> THEN <<>>
    ELSE IF Len(all_rows) = 1 THEN FirstK(all_rows[1], candidate_k)
    ELSE ExpandedMerge(all_rows, candidate_k)

\* what the retrieve_context call of one query variant can meet
ExpandedCalls(corpus, k) ==
    { RetrieveCall(TRUE, k, corpus, [kind |-> "embedding_error", rows |-> <<>>],
                   [kind |-> "rows", rows |-> <<>>, fallback |-> <<>>]) }
    \cup { RetrieveCall(FALSE, k, corpus, d,
                        [kind |-> "rows", rows |-> <<>>, fallback |-> <<>>]) :
             d \in DenseOutcomes(corpus, k) }

\* retrieve_expanded_context(db, user_id, expanded_queries, candidate_k)
ExpandedCall(queries, candidate_k) == [queries |-> queries, candidate_k |-> candidate_k]
NoExpandedCall == ExpandedCall(<<>>, 0)

(***************************************************************************)
(* reranker_service.py: rerank_context_with_scores.  A cosine similarity   *)
(* is kept in hundredths and a final score in units of 1/10000, the        *)
(* precision of round(final_score, 4).                                     *)
(***************************************************************************)
MaxCandidates == 3
MaxRerankTerms == 2
MaxRerankK == 3
target_length == 400
SemanticWeight == 55
LexicalWeight == 3500
LengthScoreWeight == 1000

\* what the reranker sees of contexts[index]: its text, how many of the
\* query's terms occur in it, its cosine similarity to the query, its length
Candidate(content, term_hits, cosine, length) ==
    [content |-> content, term_hits |-> term_hits, cosine |-> cosine, length |-> length]

Cosines == {-50, 50}
ContextLengths == {100, target_length}
CandidateLists(terms) ==
    UNION { [1..n -> { [term_hits |-> h, cosine |-> c, length |-> l] :
                         h \in {0, terms}, c \in Cosines, l \in ContextLengths }] :
            n \in 0..MaxCandidates }
\* the candidates are told apart by their position in contexts
Named(list) ==
    [i \in 1..Len(list) |->
        Candidate(AllChunkNames[i], list[i].term_hits, list[i].cosine, list[i].length)]

\* embed_query and embed_texts: both succeed, embed_query raises
\* EmbeddingServiceError, embed_texts raises it after embed_query succeeded,
\* or a 200 response has a body that is not the expected JSON (response.json()
\* or item["values"] raise ValueError / KeyError)
EmbedOutcomes == {"vectors", "query_error", "texts_error", "bad_body"}
EmbedCaught == {"query_error", "texts_error"}
EmbedUncaught == {"bad_body"}

Abs(x) == IF x < 0 THEN -x ELSE x
\* round(a / b) for a >= 0, b > 0
RoundDiv(a, b) == (2 * a + b) \div (2 * b)

\* semantic_score, in hundredths
SemanticScore(have_vectors, cosine) == IF have_vectors THEN Max(0, cosine) ELSE 0

\* round(final_score, 4) with final_score = semantic_score * 0.55 +
\* lexical_score * 0.35 + length_score * 0.10
FinalScore(c, terms, have_vectors) ==
    LET den == Max(terms, 1) * target_length
        length_part == Max(0, target_length - Abs(c.length - target_length))
    IN RoundDiv(SemanticWeight * SemanticScore(have_vectors, c.cosine) * den
                  + LexicalWeight * c.term_hits * target_length
                  + LengthScoreWeight * length_part * Max(terms, 1),
                den)

\* an entry of `scored`
Scored(c, terms, have_vectors) ==
    [content |-> c.content,
     score |-> FinalScore(c, terms, have_vectors),
     semantic_score |-> SemanticScore(have_vectors, c.cosine),
     term_hits |-> c.term_hits]

\* the positions of scored
AsGiven(scored) == [i \in 1..Len(scored) |-> i]
\* scored.sort(key=score, reverse=True): stable
Unsorted(scored) == AsGiven(scored)
SortByScore(scored) ==
    SortedDesc(AsGiven(scored), <<>>,
               [i \in 1..Len(scored) |-> Frac(scored[i].score, 1)])

\* lines 65-89
ScoreAndSort(contexts, terms, have_vectors, k) ==
    LET scored == [i \in 1..Len(contexts) |-> Scored(contexts[i], terms, have_vectors)]
        order == SortByScore(scored)
    IN FirstK([i \in 1..Len(order) |-> scored[order[i]]], k)

\* rerank_context_with_scores(query, contexts, k) and what embedding meets
RerankCall(terms, contexts, k, embed) ==
    [terms |-> terms, contexts |-> contexts, k |-> k, embed |-> embed]
NoRerankCall == RerankCall(0, <<>>, 0, "none")

(***************************************************************************)
(* chunking_service.py: _normalize_text, _select_breakpoint, chunk_text.   *)
(* A text is the sequence of its characters; positions are counted from 0  *)
(* as in the code.                                                         *)
(***************************************************************************)
MaxPieces == 6
min_chunk_size == 200
FloorTenths == 6

Whitespace == {" ", "\t", "\n", "\r"}
Blanks == {" ", "\t"}
Rep(c, n) == [i \in 1..n |-> c]

\* text.replace("\r\n", "\n").replace("\r", "\n")
UnifyNewlines(s) ==
    LET n == Len(s)
        tagged == [i \in 1..n |-> <<s[i], IF i < n THEN s[i + 1] ELSE "">>]
        kept == SelectSeq(tagged, LAMBDA p : ~(p[1] = "\r" /\ p[2] = "\n"))
    IN [i \in 1..Len(kept) |-> IF kept[i][1] = "\r" THEN "\n" ELSE kept[i][1]]

\* re.sub(r"[ \t]+", " ", normalized)
CollapseBlanks(s) ==
    LET tagged == [i \in 1..Len(s) |-> <<s[i], IF i > 1 THEN s[i - 1] ELSE "">>]
        kept == SelectSeq(tagged, LAMBDA p : ~(p[1] \in Blanks /\ p[2] \in Blanks))
    IN [i \in 1..Len(kept) |-> IF kept[i][1] \in Blanks THEN " " ELSE kept[i][1]]

\* re.sub(r"\n{3,}", "\n\n", normalized)
CollapseNewlines(s) ==
    LET tagged == [i \in 1..Len(s) |->
                     <<s[i], IF i > 1 THEN s[i - 1] ELSE "", IF i > 2 THEN s[i - 2] ELSE "">>]
        kept == SelectSeq(tagged, LAMBDA p : ~(p[1] = "\n" /\ p[2] = "\n" /\ p[3] = "\n"))
    IN [i \in 1..Len(kept) |-> kept[i][1]]

\* the number of whitespace characters a string starts and ends with
LeadingWs(s) ==
    Cardinality({ i \in 1..Len(s) : \A j \in 1..i : s[j] \in Whitespace })
TrailingWs(s) ==
    Cardinality({ i \in 1..Len(s) : \A j \in i..Len(s) : s[j] \in Whitespace })
\* str.strip()
StripText(s) ==
    IF LeadingWs(s) = Len(s) THEN <<>>
    ELSE SubSeq(s, LeadingWs(s) + 1, Len(s) - TrailingWs(s))

\* _normalize_text
NormalizeText(raw) == StripText(CollapseNewlines(CollapseBlanks(UnifyNewlines(raw))))

\* how Python reads a slice bound on a string of n characters: a negative
\* bound counts from the end
SliceBound(i, n) == IF i < 0 THEN Max(n + i, 0) ELSE Min(i, n)
\* s[a:b]
Slice(s, a, b) ==
    LET lo == SliceBound(a, Len(s))
        hi == SliceBound(b, Len(s))
    IN IF lo >= hi THEN <<>> ELSE SubSeq(s, lo + 1, hi)
\* s.rfind(marker, a, b): the highest position in s[a:b] where marker
\* starts and fits, -1 when there is none
RFind(s, marker, a, b) ==
    LET lo == SliceBound(a, Len(s))
        hi == SliceBound(b, Len(s))
        found == { i \in lo..(hi - Len(marker)) :
                     \A k \in 1..Len(marker) : s[i + k] = marker[k] }
    IN IF found = {} THEN 0 - 1
       ELSE CHOOSE i \in found : \A j \in found : j <= i

\* markers = ("\n\n", "\n", ". ", "? ", "! ", "; ", ", ", " ")
Markers ==
    << <<"\n", "\n">>, <<"\n">>, <<".", " ">>, <<"?", " ">>, <<"!", " ">>,
       <<";", " ">>, <<",", " ">>, <<" ">> >>
\* len(marker.rstrip())
RStripLen(marker) == Len(marker) - TrailingWs(marker)

\* best and best_adjustment after the first m markers of the for loop
RECURSIVE BestMarker(_, _, _, _)
BestMarker(s, floor, target_end, m) ==
    IF m = 0 THEN [best |-> 0 - 1, best_adjustment |-> 0]
    ELSE LET before == BestMarker(s, floor, target_end, m - 1)
             marker_index == RFind(s, Markers[m], floor, target_end)
         IN IF marker_index > before.best
            THEN [best |-> marker_index, best_adjustment |-> RStripLen(Markers[m])]
            ELSE before

\* _select_breakpoint; int((target_end - start) * 0.6) of a positive length
SelectBreakpoint(s, start, target_end) ==
    LET floor == start + (FloorTenths * (target_end - start)) \div 10
        b == BestMarker(s, floor, target_end, Len(Markers))
    IN IF b.best = 0 - 1 THEN target_end ELSE b.best + b.best_adjustment

\* one character more than chunk_size
TargetEndOneMore(start, size, n) == Min(start + size + 1, n)
\* min(start + chunk_size, text_length)
TargetEnd(start, size, n) == Min(start + size, n)

\* the end of the chunk that starts at start
ChunkEnd(s, start, size) ==
    LET n == Len(s)
        end == TargetEnd(start, size, n)
    IN IF end < n
       THEN LET at == SelectBreakpoint(s, start, end) IN
            IF at <= start THEN TargetEnd(start, size, n) ELSE at
       ELSE end

\* the texts given to chunk_text: a word, a separator, a short word, a
\* second separator and a last word
WordLengths == {0, 130, 199, 250}
Separators ==
    { <<" ">>, <<".", " ">>, <<"\n", "\n">>, <<" ", "\t", " ">>,
      <<"\r", "\n", "\r", "\n", "\r", "\n">>, <<",", " ">> }
ShortWords == {0, 20}
SecondSeparators == { <<>>, <<" ">> }
LastWords == {0, 300}
ChunkTexts ==
    { Rep("x", a) \o s1 \o Rep("x", m) \o s2 \o Rep("x", b) :
        a \in WordLengths, s1 \in Separators, m \in ShortWords,
        s2 \in SecondSeparators, b \in LastWords }
ChunkSizes == {min_chunk_size - 1, min_chunk_size, 260}
Overlaps == {0 - 60, 0, 50, 130, min_chunk_size - 1, 260}

(***************************************************************************)
(* doc_agent.py: DocumentAgent.run                                          *)
(***************************************************************************)
VARIABLES
    goal,            \* the goal passed to run
    max_iter,        \* self._max_iter
    retrieval_up,    \* whether retrieval works during this run
    iterations,      \* state.iterations
    plan,            \* state.plan
    results,         \* state.results
    eval_history,    \* state.eval_history
    final_answer,    \* state.final_answer
    pc,              \* where the generator stands
    idx,             \* position of `for task in plan` (1-based)
    events,          \* the events yielded so far
    plannerCalls,    \* calls of Planner.plan / plan_from_gaps
    executorCalls,   \* calls of Executor.execute
    evaluatorCalls,  \* calls of Evaluator.evaluate
    synthCalls,      \* calls of Synthesizer.synthesize
    evalAllRaised,   \* every backend call of the Evaluator so far raised
    loopExit,        \* why the while loop was left ("none": not left)
    call             \* what the step just taken met at its backend

\* the caller of run, which drives the generator
VARIABLES
    consumer         \* "reading": it asks for the next event; "stopped": it no longer does

\* runs of one DocumentAgent instance that are in progress together
VARIABLES
    runs,            \* per run: its AgentState and the position of its generator
    made             \* per run: what the Executor and the Evaluator returned to it

\* a request to run_smart_chat
VARIABLES
    request,         \* what analyze_query finds in the query; conversation_id given?
    analysis,        \* the QueryAnalysis
    chat_pc,         \* where run_smart_chat stands
    history,         \* the history last loaded
    judge_input,     \* what evaluate_context is given
    context_eval,    \* the ContextEvaluation
    chat_result,     \* the SmartChatResult returned or the SmartChatError raised
    chatCalls        \* calls made for the request

chatvars == <<request, analysis, chat_pc, history, judge_input, context_eval,
              chat_result, chatCalls>>

\* a call of retrieve_context
VARIABLES
    ret_call,        \* the call and what its searches meet
    ret_pc,          \* where retrieve_context stands
    dense_results,   \* dense_results
    keyword_results, \* keyword_results
    ret_result       \* the rows returned

retvars == <<ret_call, ret_pc, dense_results, keyword_results, ret_result>>

\* a call of retrieve_expanded_context
VARIABLES
    fuse_call,       \* expanded_queries, what each retrieve_context meets, candidate_k
    fuse_pc,         \* where retrieve_expanded_context stands
    rows_by_query,   \* the rows retrieve_context returned, query by query
    all_ranked,      \* all_ranked
    fuse_result      \* the list returned

fusevars == <<fuse_call, fuse_pc, rows_by_query, all_ranked, fuse_result>>

\* a call of rerank_context_with_scores
VARIABLES
    rank_call,       \* the query's terms, contexts, k, and what embedding meets
    rank_pc,         \* where rerank_context_with_scores stands
    have_vectors,    \* query_vector and context_vectors are set
    rank_result      \* the list returned

rankvars == <<rank_call, rank_pc, have_vectors, rank_result>>

\* chunk_text called on its own
VARIABLES
    text,            \* the text given
    chunk_size,      \* chunk_size
    overlap,         \* overlap
    chunk_pc,        \* where chunk_text stands
    normalized,      \* normalized
    start,           \* start
    chunks           \* chunks

chunkvars == <<text, chunk_size, overlap, chunk_pc, normalized, start, chunks>>

\* calls of the service functions on their own
services == <<retvars, fusevars, rankvars, chunkvars>>

\* POST /agent: run_agent and its event_stream generator
VARIABLES
    api_pc,          \* where event_stream stands
    persisted_run,   \* the AgentRun row: status, final_answer
    error_msg,       \* error_msg
    seen_answer,     \* event_stream's own final_answer
    sse              \* the types of the SSE lines yielded to the response

apivars == <<api_pc, persisted_run, error_msg, seen_answer, sse>>

\* the chunks of every user, each with the user_id of its document
VARIABLES
    chunk_table      \* the rows of chunks joined with documents, oldest first

\* api/auth.py: the users table, the clock, and the last response
VARIABLES
    users,           \* the rows of users, in order of id
    now,             \* datetime.now(timezone.utc), in token lifetimes
    auth_response,   \* the request last handled and its response
    registered,      \* what every successful register was given, and the user it made
    issued           \* the tokens handed out

authvars == <<users, now, auth_response, registered, issued>>

\* what DocumentAgent.run neither reads nor writes
outside == <<consumer, runs, made, chatvars, services, apivars, chunk_table, authvars>>

vars == <<goal, max_iter, retrieval_up, iterations, plan, results, eval_history,
          final_answer, pc, idx, events, plannerCalls, executorCalls,
          evaluatorCalls, synthCalls, evalAllRaised, loopExit, call, outside>>

config == <<goal, max_iter, retrieval_up>>
counters == <<plannerCalls, executorCalls, evaluatorCalls, synthCalls>>

Goals == {"goal"}

\* self._evt(type, data): the fields of data the model keeps
Event(type, iteration, task_id, failed) ==
    [type |-> type, iteration |-> iteration, task_id |-> task_id, failed |-> failed]

\* the record kept in `call`
Call(op, kind, claim, score, called, shown, context) ==
    [op |-> op, kind |-> kind, claim |-> claim, score |-> score,
     called |-> called, shown |-> shown, context |-> context]
NoCall == Call("none", "", "", 0, FALSE, <<>>, <<>>)

\* what `call` keeps of an evaluator response: its kind ("badtype" for an
\* object with a non-numeric score, completeness or accuracy) and, for an
\* object that parses, the model's own "sufficient" and score
EvalCall(resp, ev) ==
    IF ~ev.called THEN Call("evaluate", "nocall", "", 0, FALSE, <<>>, <<>>)
    ELSE IF resp.kind # "object" THEN Call("evaluate", resp.kind, "", 0, TRUE, ev.shown, <<>>)
    ELSE IF ~IsNumber(resp.score) \/ ~IsNumber(resp.completeness) \/ ~IsNumber(resp.accuracy)
    THEN Call("evaluate", "badtype", "", 0, TRUE, ev.shown, <<>>)
    ELSE Call("evaluate", "object", resp.sufficient, resp.score, TRUE, ev.shown, <<>>)

\* what `call` keeps of a planner response: its kind and, for an object,
\* whether "tasks" is a list holding a string that is not blank
PlanCall(resp) ==
    Call("plan", resp.kind,
         IF resp.kind = "object" /\ UsableTasks(resp.tasks) THEN "usable" ELSE "unusable",
         0, TRUE, <<>>, <<>>)

\* the caller iterates the generator to its end (for event in agent.run(...))
CallerReads == consumer = "reading"

\* a single run of the instance
NoOtherRuns == runs = <<>> /\ made = <<>>

\* run called on its own, not by run_smart_chat
NoChat ==
    /\ request = NoRequest
    /\ analysis = NoAnalysis
    /\ chat_pc = "none"
    /\ history = "unset"
    /\ judge_input = NoJudgeInput
    /\ context_eval = NotJudged
    /\ chat_result = NoResult
    /\ chatCalls = NoChatCalls

\* no service function is called on its own
NoRetrieval ==
    /\ ret_call = NoRetrieveCall
    /\ ret_pc = "none"
    /\ dense_results = <<>>
    /\ keyword_results = <<>>
    /\ ret_result = <<>>
NoFusion ==
    /\ fuse_call = NoExpandedCall
    /\ fuse_pc = "none"
    /\ rows_by_query = <<>>
    /\ all_ranked = <<>>
    /\ fuse_result = <<>>
NoRerank ==
    /\ rank_call = NoRerankCall
    /\ rank_pc = "none"
    /\ have_vectors = FALSE
    /\ rank_result = <<>>
NoChunking ==
    /\ text = <<>>
    /\ chunk_size = 0
    /\ overlap = 0
    /\ chunk_pc = "none"
    /\ normalized = <<>>
    /\ start = 0
    /\ chunks = <<>>
NoServiceCalls == NoRetrieval /\ NoFusion /\ NoRerank /\ NoChunking

\* str(exc), and None as a message and as an answer
ExcText == "exc"
None == "None"
NoneAnswer == [kind |-> "none", sections |-> <<>>]
\* no request to /auth
NoToken == [kind |-> "none", sub |-> "", email |-> "", exp |-> 0]
NoUser == [id |-> 0, email |-> "", hashed_password |-> ""]
NoAuthResponse ==
    [op |-> "none", email |-> "", password |-> "", credentials |-> NoToken,
     status |-> 0, token |-> NoToken, user |-> NoUser, at |-> 0, known |-> FALSE]
NoAuth ==
    /\ users = <<>>
    /\ now = 0
    /\ auth_response = NoAuthResponse
    /\ registered = {}
    /\ issued = {}
\* the service functions are given what their searches meet, not a table
NoTable == chunk_table = <<>>
\* run is not called by POST /agent
NoApi ==
    /\ api_pc = "none"
    /\ persisted_run = [status |-> "none", final_answer |-> NoneAnswer]
    /\ error_msg = None
    /\ seen_answer = NoneAnswer
    /\ sse = <<>>

\* state = AgentState(goal=goal), nothing called yet
FreshRun ==
    /\ iterations = 0
    /\ plan = <<>>
    /\ results = <<>>
    /\ eval_history = <<>>
    /\ final_answer = NoAnswer
    /\ pc = "loop"
    /\ idx = 1
    /\ events = <<>>
    /\ plannerCalls = 0
    /\ executorCalls = 0
    /\ evaluatorCalls = 0
    /\ synthCalls = 0
    /\ evalAllRaised = TRUE
    /\ loopExit = "none"
    /\ call = NoCall

\* DocumentAgent.__init__ and the first lines of run
Init ==
    /\ goal \in Goals
    /\ max_iter \in 0..agent_max_iterations
    /\ retrieval_up \in BOOLEAN
    /\ FreshRun
    /\ CallerReads
    /\ NoOtherRuns
    /\ NoChat
    /\ NoServiceCalls
    /\ NoApi
    /\ NoTable
    /\ NoAuth

\* while state.iterations < self._max_iter
LoopGuard(it, max) == it < max
\* the early exit forgotten: gaps never count as empty
GapsNeverEmpty(gaps) == FALSE
\* if not last_eval.gaps
GapsEmpty(gaps) == ~Truthy(gaps)
\* the budget taken as used up after any iteration
BudgetAtOnce(it, max) == TRUE
\* if state.iterations >= self._max_iter
BudgetReached(it, max) == it >= max

\* the list rebuilt from the latest result alone
ReplaceResults(rs, r) == <<r>>
\* state.results.append(result)
AppendResult(rs, r) == Append(rs, r)

\* iteration 1: plan = self._planner.plan(goal); yield the plan event; the
\* planner's backend answers with one of planR
PlanGoalWith(planR) ==
    /\ pc = "loop"
    /\ LoopGuard(iterations, max_iter)
    /\ iterations + 1 = 1
    /\ \E resp \in planR :
         /\ plan' = PlannerPlan(resp, goal, MaxSubtasks)
         /\ call' = PlanCall(resp)
    /\ iterations' = iterations + 1
    /\ plannerCalls' = plannerCalls + 1
    /\ events' = Append(events, Event("plan", iterations', 0 - 1, FALSE))
    /\ idx' = 1
    /\ pc' = "exec"
    /\ UNCHANGED <<outside, config, results, eval_history, final_answer, executorCalls,
                   evaluatorCalls, synthCalls, evalAllRaised, loopExit>>
PlanGoal == PlanGoalWith(PlanResponses)

\* iteration > 1 with gaps: plan = self._planner.plan_from_gaps(last_eval.gaps);
\* an exception of plan_from_gaps leaves run
PlanGaps ==
    /\ pc = "loop"
    /\ LoopGuard(iterations, max_iter)
    /\ iterations + 1 # 1
    /\ ~GapsEmpty(Last(eval_history).gaps)
    /\ iterations' = iterations + 1
    /\ plannerCalls' = plannerCalls + 1
    /\ LET p == PlanFromGaps(Last(eval_history).gaps, MaxSubtasks) IN
       IF p.raised
       THEN /\ pc' = "raised"
            /\ call' = Call("plan_from_gaps", "uncaught", "", 0, FALSE, <<>>, <<>>)
            /\ UNCHANGED <<plan, events, idx>>
       ELSE /\ plan' = p.tasks
            /\ events' = Append(events, Event("plan", iterations', 0 - 1, FALSE))
            /\ idx' = 1
            /\ pc' = "exec"
            /\ call' = NoCall
    /\ UNCHANGED <<outside, config, results, eval_history, final_answer, executorCalls,
                   evaluatorCalls, synthCalls, evalAllRaised, loopExit>>

\* iteration > 1 without gaps: break
NoGapsBreak ==
    /\ pc = "loop"
    /\ LoopGuard(iterations, max_iter)
    /\ iterations + 1 # 1
    /\ GapsEmpty(Last(eval_history).gaps)
    /\ iterations' = iterations + 1
    /\ loopExit' = "no_gaps"
    /\ pc' = "synth"
    /\ call' = NoCall
    /\ UNCHANGED <<outside, config, plan, results, eval_history, final_answer, idx, events,
                   counters, evalAllRaised>>

\* the while condition is false
GuardExit ==
    /\ pc = "loop"
    /\ ~LoopGuard(iterations, max_iter)
    /\ loopExit' = "guard"
    /\ pc' = "synth"
    /\ call' = NoCall
    /\ UNCHANGED <<outside, config, iterations, plan, results, eval_history, final_answer, idx,
                   events, counters, evalAllRaised>>

\* for task in plan: yield step_start
StepStart ==
    /\ pc = "exec"
    /\ idx <= Len(plan)
    /\ events' = Append(events, Event("step_start", iterations, plan[idx].id, FALSE))
    /\ pc' = "step"
    /\ call' = NoCall
    /\ UNCHANGED <<outside, config, iterations, plan, results, eval_history, final_answer, idx,
                   counters, evalAllRaised, loopExit>>

\* result = self._executor.execute(task, ...); state.results.append(result);
\* yield step_result; the generation call meets one of genR
ExecuteWith(genR) ==
    /\ pc = "step"
    /\ executorCalls' = executorCalls + 1
    /\ \E gen \in genR :
         LET x == ExecutorExecute(plan[idx], gen, retrieval_up) IN
         /\ plan' = [plan EXCEPT ![idx].status = x.status]
         /\ call' = Call("execute", GenClass(gen), "", 0, TRUE, <<>>, <<>>)
         /\ IF x.raised
            THEN /\ pc' = "raised"
                 /\ UNCHANGED <<results, events, idx>>
            ELSE /\ results' = AppendResult(results, x.result)
                 /\ events' = Append(events, Event("step_result", iterations,
                                                   x.result.task_id, x.result.failed))
                 /\ idx' = idx + 1
                 /\ pc' = "exec"
    /\ UNCHANGED <<outside, config, iterations, eval_history, final_answer, plannerCalls,
                   evaluatorCalls, synthCalls, evalAllRaised, loopExit>>
Execute == ExecuteWith(GenOutcomes)

\* eval_result = self._evaluator.evaluate(goal, state.results);
\* state.eval_history.append(eval_result); yield eval; the evaluator's
\* backend answers with one of evalR
EvaluateWith(evalR) ==
    /\ pc = "exec"
    /\ idx > Len(plan)
    /\ evaluatorCalls' = evaluatorCalls + 1
    /\ \E resp \in evalR :
         LET ev == EvaluatorEvaluate(resp, goal, results, agent_eval_threshold) IN
         /\ eval_history' = Append(eval_history, ev.result)
         /\ call' = EvalCall(resp, ev)
         /\ evalAllRaised' = (evalAllRaised /\ (ev.called => resp.kind = "raise"))
    /\ events' = Append(events, Event("eval", iterations, 0 - 1, FALSE))
    /\ pc' = "check"
    /\ UNCHANGED <<outside, config, iterations, plan, results, final_answer, idx, plannerCalls,
                   executorCalls, synthCalls, loopExit>>
Evaluate == EvaluateWith(EvalResponses)

\* if eval_result.sufficient: break
StopSufficient ==
    /\ pc = "check"
    /\ Last(eval_history).sufficient
    /\ loopExit' = "sufficient"
    /\ pc' = "synth"
    /\ call' = NoCall
    /\ UNCHANGED <<outside, config, iterations, plan, results, eval_history, final_answer, idx,
                   events, counters, evalAllRaised>>

\* if state.iterations >= self._max_iter: break
StopBudget ==
    /\ pc = "check"
    /\ ~Last(eval_history).sufficient
    /\ BudgetReached(iterations, max_iter)
    /\ loopExit' = "budget"
    /\ pc' = "synth"
    /\ call' = NoCall
    /\ UNCHANGED <<outside, config, iterations, plan, results, eval_history, final_answer, idx,
                   events, counters, evalAllRaised>>

\* neither: back to the while condition
Continue ==
    /\ pc = "check"
    /\ ~Last(eval_history).sufficient
    /\ ~BudgetReached(iterations, max_iter)
    /\ pc' = "loop"
    /\ call' = NoCall
    /\ UNCHANGED <<outside, config, iterations, plan, results, eval_history, final_answer, idx,
                   events, counters, evalAllRaised, loopExit>>

\* final_answer, all_context = self._synthesizer.synthesize(goal, state.results);
\* state.final_answer = final_answer; yield final; the synthesis call meets
\* one of synR
SynthesizeWith(synR) ==
    /\ pc = "synth"
    /\ synthCalls' = synthCalls + 1
    /\ \E gen \in synR :
         LET sy == SynthesizerSynthesize(gen, goal, results) IN
         /\ call' = Call("synthesize", IF sy.called THEN SynthClass(gen) ELSE "nocall", "", 0,
                         sy.called, results, sy.context)
         /\ IF sy.raised
            THEN /\ pc' = "raised"
                 /\ UNCHANGED <<final_answer, events>>
            ELSE /\ final_answer' = sy.answer
                 /\ events' = Append(events, Event("final", iterations, 0 - 1, FALSE))
                 /\ pc' = "final"
    /\ UNCHANGED <<outside, config, iterations, plan, results, eval_history, idx, plannerCalls,
                   executorCalls, evaluatorCalls, evalAllRaised, loopExit>>
Synthesize == SynthesizeWith(SynthOutcomes)

\* return state
Return ==
    /\ pc = "final"
    /\ pc' = "done"
    /\ call' = NoCall
    /\ UNCHANGED <<outside, config, iterations, plan, results, eval_history, final_answer, idx,
                   events, counters, evalAllRaised, loopExit>>

Next ==
    \/ PlanGoal
    \/ PlanGaps
    \/ NoGapsBreak
    \/ GuardExit
    \/ StepStart
    \/ Execute
    \/ Evaluate
    \/ StopSufficient
    \/ StopBudget
    \/ Continue
    \/ Synthesize
    \/ Return

Spec == Init /\ [][Next]_vars

\* the generator is driven to its end: every step that can be taken is taken
LiveSpec == Spec /\ WF_vars(Next)

(***************************************************************************)
(* The generator and its caller: run is a generator function, its body     *)
(* advances from one yield to the next only when the caller asks for the   *)
(* next event (smart_chat_service._run_agent_path, api/agent.event_stream) *)
(***************************************************************************)
StreamMaxIter == 2

StreamInit == Init /\ max_iter <= StreamMaxIter

\* next(generator): the body runs up to its next yield, its return or an
\* exception
Resume ==
    /\ consumer = "reading"
    /\ Next

\* the caller stops iterating (the client of the event stream went away, the
\* caller broke out of its loop): nothing resumes the generator any more
StopReading ==
    /\ consumer = "reading"
    /\ pc \notin {"done", "raised"}
    /\ consumer' = "stopped"
    /\ UNCHANGED <<config, iterations, plan, results, eval_history, final_answer,
                   pc, idx, events, counters, evalAllRaised, loopExit, call,
                   runs, made, chatvars, services, apivars, chunk_table, authvars>>

StreamNext ==
    \/ CallerReads /\ PlanGoal
    \/ CallerReads /\ PlanGaps
    \/ CallerReads /\ NoGapsBreak
    \/ CallerReads /\ GuardExit
    \/ CallerReads /\ StepStart
    \/ CallerReads /\ Execute
    \/ CallerReads /\ Evaluate
    \/ CallerReads /\ StopSufficient
    \/ CallerReads /\ StopBudget
    \/ CallerReads /\ Continue
    \/ CallerReads /\ Synthesize
    \/ CallerReads /\ Return
    \/ StopReading

StreamSpec == StreamInit /\ [][StreamNext]_vars

(***************************************************************************)
(* Two runs of one DocumentAgent instance, interleaved at their yields.    *)
(* The instance holds max_iter, the threshold and the four components,     *)
(* none of which run writes; each call of run makes its own AgentState     *)
(* (doc_agent.py:108), a local of that generator's frame.                  *)
(***************************************************************************)
Runs == {1, 2}
RunGoals == <<"goal", "q1">>
DuoMaxIter == 2

\* the AgentState of a run and the position of its generator
RunState(g) ==
    [goal |-> g, iterations |-> 0, plan |-> <<>>, results |-> <<>>,
     eval_history |-> <<>>, final_answer |-> NoAnswer, pc |-> "loop", idx |-> 1,
     events |-> <<>>]

\* The steps of DocumentAgent.run as functions of the run's own state: the
\* states one step (from a yield to the next) can lead to, given the
\* responses the backends may give.
PlanGoalSteps(st, max, planR) ==
    IF st.pc = "loop" /\ LoopGuard(st.iterations, max) /\ st.iterations + 1 = 1
    THEN { [st EXCEPT !.iterations = 1,
                      !.plan = PlannerPlan(resp, st.goal, MaxSubtasks),
                      !.events = Append(@, Event("plan", 1, 0 - 1, FALSE)),
                      !.idx = 1, !.pc = "exec"] : resp \in planR }
    ELSE {}

PlanGapsSteps(st, max) ==
    IF /\ st.pc = "loop" /\ LoopGuard(st.iterations, max) /\ st.iterations + 1 # 1
       /\ ~GapsEmpty(Last(st.eval_history).gaps)
    THEN LET p == PlanFromGaps(Last(st.eval_history).gaps, MaxSubtasks) IN
         IF p.raised
         THEN { [st EXCEPT !.iterations = @ + 1, !.pc = "raised"] }
         ELSE { [st EXCEPT !.iterations = @ + 1, !.plan = p.tasks,
                           !.events = Append(@, Event("plan", st.iterations + 1, 0 - 1, FALSE)),
                           !.idx = 1, !.pc = "exec"] }
    ELSE {}

NoGapsBreakSteps(st, max) ==
    IF /\ st.pc = "loop" /\ LoopGuard(st.iterations, max) /\ st.iterations + 1 # 1
       /\ GapsEmpty(Last(st.eval_history).gaps)
    THEN { [st EXCEPT !.iterations = @ + 1, !.pc = "synth"] }
    ELSE {}

GuardExitSteps(st, max) ==
    IF st.pc = "loop" /\ ~LoopGuard(st.iterations, max)
    THEN { [st EXCEPT !.pc = "synth"] }
    ELSE {}

StepStartSteps(st) ==
    IF st.pc = "exec" /\ st.idx <= Len(st.plan)
    THEN { [st EXCEPT !.events = Append(@, Event("step_start", st.iterations,
                                                 st.plan[st.idx].id, FALSE)),
                      !.pc = "step"] }
    ELSE {}

ExecuteSteps(st, up, genR) ==
    IF st.pc = "step"
    THEN { LET x == ExecutorExecute(st.plan[st.idx], gen, up) IN
           IF x.raised
           THEN [st EXCEPT !.plan[st.idx].status = x.status, !.pc = "raised"]
           ELSE [st EXCEPT !.plan[st.idx].status = x.status,
                           !.results = AppendResult(@, x.result),
                           !.events = Append(@, Event("step_result", st.iterations,
                                                      x.result.task_id, x.result.failed)),
                           !.idx = @ + 1, !.pc = "exec"] : gen \in genR }
    ELSE {}

EvaluateSteps(st, evalR) ==
    IF st.pc = "exec" /\ st.idx > Len(st.plan)
    THEN { [st EXCEPT !.eval_history =
                          Append(@, EvaluatorEvaluate(resp, st.goal, st.results,
                                                      agent_eval_threshold).result),
                      !.events = Append(@, Event("eval", st.iterations, 0 - 1, FALSE)),
                      !.pc = "check"] : resp \in evalR }
    ELSE {}

StopSufficientSteps(st) ==
    IF st.pc = "check" /\ Last(st.eval_history).sufficient
    THEN { [st EXCEPT !.pc = "synth"] }
    ELSE {}

StopBudgetSteps(st, max) ==
    IF /\ st.pc = "check" /\ ~Last(st.eval_history).sufficient
       /\ BudgetReached(st.iterations, max)
    THEN { [st EXCEPT !.pc = "synth"] }
    ELSE {}

ContinueSteps(st, max) ==
    IF /\ st.pc = "check" /\ ~Last(st.eval_history).sufficient
       /\ ~BudgetReached(st.iterations, max)
    THEN { [st EXCEPT !.pc = "loop"] }
    ELSE {}

SynthesizeSteps(st, synR) ==
    IF st.pc = "synth"
    THEN { LET sy == SynthesizerSynthesize(gen, st.goal, st.results) IN
           IF sy.raised
           THEN [st EXCEPT !.pc = "raised"]
           ELSE [st EXCEPT !.final_answer = sy.answer,
                           !.events = Append(@, Event("final", st.iterations, 0 - 1, FALSE)),
                           !.pc = "final"] : gen \in synR }
    ELSE {}

ReturnSteps(st) ==
    IF st.pc = "final" THEN { [st EXCEPT !.pc = "done"] } ELSE {}

\* every step a run in state st can take
RunSteps(st, max, up, planR, genR, evalR, synR) ==
    PlanGoalSteps(st, max, planR) \cup PlanGapsSteps(st, max)
    \cup NoGapsBreakSteps(st, max) \cup GuardExitSteps(st, max)
    \cup StepStartSteps(st) \cup ExecuteSteps(st, up, genR)
    \cup EvaluateSteps(st, evalR) \cup StopSufficientSteps(st)
    \cup StopBudgetSteps(st, max) \cup ContinueSteps(st, max)
    \cup SynthesizeSteps(st, synR) \cup ReturnSteps(st)

\* the responses the backends give in the two-run specification
DuoPlanResponses ==
    { [kind |-> "raise", tasks |-> NullValue],
      [kind |-> "object", tasks |-> ListValue([i \in 1..(MaxSubtasks + 1) |-> " q1 "])] }
DuoGenOutcomes == {"text", "no_key"}
DuoEvalResponses == { EvalOther("raise"), EvalOther("notjson") }
DuoSynthOutcomes == {"text", "no_key"}

\* what the Executor and the Evaluator returned in a step from `old` to `new`
NothingMade == [results |-> <<>>, evals |-> <<>>]
MadeBy(m, old, new) ==
    [results |-> IF Len(new.results) # Len(old.results) \/ new.results # old.results
                 THEN Append(m.results, Last(new.results)) ELSE m.results,
     evals |-> IF new.eval_history # old.eval_history
               THEN Append(m.evals, Last(new.eval_history)) ELSE m.evals]

\* one AgentState for all runs, as if it were kept on the instance
SharedState(r) == 1
\* the AgentState run r works on: the one its own call of run made
StateOf(r) == r

\* run r takes one of the steps `steps` of its state
Take(r, steps) ==
    \E new \in steps :
        /\ runs' = [runs EXCEPT ![StateOf(r)] = new]
        /\ made' = [made EXCEPT ![r] = MadeBy(@, runs[StateOf(r)], new)]
        /\ UNCHANGED <<config, iterations, plan, results, eval_history, final_answer,
                       pc, idx, events, counters, evalAllRaised, loopExit, call,
                       consumer, chatvars, services, apivars, chunk_table, authvars>>

TwoRunInit ==
    /\ goal = RunGoals[1]
    /\ max_iter \in {0, DuoMaxIter}
    /\ retrieval_up = TRUE
    /\ FreshRun
    /\ CallerReads
    /\ runs = [r \in Runs |-> RunState(RunGoals[r])]
    /\ made = [r \in Runs |-> NothingMade]
    /\ NoChat
    /\ NoServiceCalls
    /\ NoApi
    /\ NoTable
    /\ NoAuth

TwoRunNext ==
    \E r \in Runs :
        \/ Take(r, PlanGoalSteps(runs[StateOf(r)], max_iter, DuoPlanResponses))
        \/ Take(r, PlanGapsSteps(runs[StateOf(r)], max_iter))
        \/ Take(r, NoGapsBreakSteps(runs[StateOf(r)], max_iter))
        \/ Take(r, GuardExitSteps(runs[StateOf(r)], max_iter))
        \/ Take(r, StepStartSteps(runs[StateOf(r)]))
        \/ Take(r, ExecuteSteps(runs[StateOf(r)], retrieval_up, DuoGenOutcomes))
        \/ Take(r, EvaluateSteps(runs[StateOf(r)], DuoEvalResponses))
        \/ Take(r, StopSufficientSteps(runs[StateOf(r)]))
        \/ Take(r, StopBudgetSteps(runs[StateOf(r)], max_iter))
        \/ Take(r, ContinueSteps(runs[StateOf(r)], max_iter))
        \/ Take(r, SynthesizeSteps(runs[StateOf(r)], DuoSynthOutcomes))
        \/ Take(r, ReturnSteps(runs[StateOf(r)]))

TwoRunSpec == TwoRunInit /\ [][TwoRunNext]_vars

(***************************************************************************)
(* evaluate_context on its own                                             *)
(***************************************************************************)
MaxTerms == 20
MaxChunks == 3

\* context lengths around the character threshold
ChunkLengths ==
    {0, context_min_chars \div 2, context_min_chars - 1, context_min_chars}
ContextLists == UNION { [1..n -> ChunkLengths] : n \in 0..MaxChunks }
AvgScores == {NoScore, Score(LowConfidence - 1), Score(LowConfidence)}

\* a term or token can only be found in text that is there
ValidJudgeInput(in) ==
    /\ in.hits <= in.terms
    /\ in.terms > 0 => in.fallback = 0
    /\ in.hits > 0 => SumLen(in.contexts) > 0
    /\ in.fallback > 0 => (in.contexts # <<>> /\ Head(in.contexts) > 0)

\* no agent run is in progress
AgentIdle ==
    /\ goal = "goal"
    /\ max_iter = agent_max_iterations
    /\ retrieval_up = TRUE
    /\ FreshRun
    /\ CallerReads
    /\ NoOtherRuns

JudgeInit ==
    /\ AgentIdle
    /\ NoServiceCalls
    /\ NoApi
    /\ NoTable
    /\ NoAuth
    /\ request = NoRequest
    /\ analysis = NoAnalysis
    /\ chat_pc = "judge"
    /\ history = "unset"
    /\ \E t \in 0..MaxTerms, h \in 0..MaxTerms, f \in 0..1,
          c \in ContextLists, a \in AvgScores :
           /\ ValidJudgeInput(JudgeInput(t, h, f, c, a))
           /\ judge_input = JudgeInput(t, h, f, c, a)
    /\ context_eval = NotJudged
    /\ chat_result = NoResult
    /\ chatCalls = NoChatCalls

\* context_eval = evaluate_context(query_terms, contexts, avg_rank_score)
JudgeAlone ==
    /\ chat_pc = "judge"
    /\ context_eval' = EvaluateContext(judge_input)
    /\ chat_pc' = "judged"
    /\ UNCHANGED <<config, iterations, plan, results, eval_history, final_answer,
                   pc, idx, events, counters, evalAllRaised, loopExit, call,
                   consumer, runs, made, request, analysis, history, judge_input,
                   chat_result, chatCalls, services, apivars, chunk_table,
                   authvars>>

JudgeNext == JudgeAlone

JudgeSpec == JudgeInit /\ [][JudgeNext]_vars

(***************************************************************************)
(* smart_chat_service.py: run_smart_chat                                   *)
(***************************************************************************)
MaxHints == 2
MaxInfoTokens == 20

Requests ==
    [hint_hits : 0..MaxHints, multi_part : BOOLEAN,
     info_tokens : 0..MaxInfoTokens, conversation : BOOLEAN]

\* build_contextual_history answers or raises
HistoryOutcomes == {"ok", "fail"}
\* what the caller of DocumentAgent.run sees: a final event with an answer,
\* a final event with an empty answer, or an exception out of the generator
AgentOutcomes == {"answer", "empty", "raised"}
\* retrieve_expanded_context + rerank_context_with_scores: the reranked
\* contexts, or an exception of the database
ChatContexts ==
    { <<>>, <<context_min_chars>>,
      <<context_min_chars \div 2, context_min_chars \div 2>>,
      <<0, context_min_chars - 1>> }

\* DocumentAgent._load_history: any exception gives None
LoadHistory(conversation, outcome) ==
    IF ~conversation THEN "none"
    ELSE IF outcome = "fail" THEN "none" ELSE "loaded"

\* the escalation without the complexity condition
EscalateWhenThin(ev, a) == ~ev.sufficient
\* not context_eval.sufficient and analysis.complexity_score >= 0.35
ShouldEscalate(ev, a) == ~ev.sufficient /\ a.complexity_score >= EscalateScore

SmartChatResult(pipeline, route_reason, judge_reason, context) ==
    [status |-> "returned", pipeline |-> pipeline, route_reason |-> route_reason,
     judge_reason |-> judge_reason, context |-> context, error |-> ""]
SmartChatError(error) ==
    [status |-> "raised", pipeline |-> "", route_reason |-> "", judge_reason |-> "",
     context |-> <<>>, error |-> error]

ChatInit ==
    /\ AgentIdle
    /\ NoServiceCalls
    /\ NoApi
    /\ NoTable
    /\ NoAuth
    /\ request \in Requests
    /\ analysis = NoAnalysis
    /\ chat_pc = "start"
    /\ history = "unset"
    /\ judge_input = NoJudgeInput
    /\ context_eval = NotJudged
    /\ chat_result = NoResult
    /\ chatCalls = NoChatCalls

agentvars == <<config, iterations, plan, results, eval_history, final_answer,
               pc, idx, events, counters, evalAllRaised, loopExit, call,
               consumer, runs, made, services, apivars, chunk_table, authvars>>

\* analysis = analyze_query(query); preferred_pipeline = choose_pipeline(analysis)
Analyze ==
    /\ chat_pc = "start"
    /\ analysis' = AnalyzeQuery(request)
    /\ chat_pc' = IF ChoosePipeline(analysis') = "agent" THEN "agent" ELSE "history"
    /\ UNCHANGED <<agentvars, request, history, judge_input, context_eval,
                   chat_result, chatCalls>>

\* _run_agent_path, called first (pipeline "agent") or after the judge
\* (pipeline "agent_fallback"): the agent loads the history itself
AgentPath ==
    /\ chat_pc \in {"agent", "escalate"}
    /\ \E hp \in HistoryOutcomes, out \in AgentOutcomes :
         /\ history' = LoadHistory(request.conversation, hp)
         /\ chatCalls' =
              [chatCalls EXCEPT
                 !.agent = @ + 1,
                 !.history = @ + (IF request.conversation THEN 1 ELSE 0),
                 !.historyFailed =
                     @ + (IF request.conversation /\ hp = "fail" THEN 1 ELSE 0)]
         /\ chat_result' =
              CASE out = "answer" ->
                     IF chat_pc = "agent"
                     THEN SmartChatResult("agent", "routed to agent", "", <<>>)
                     ELSE SmartChatResult("agent_fallback", "escalated to agent",
                                          context_eval.reason, <<>>)
                [] out = "empty" -> SmartChatError("no final answer")
                [] OTHER -> SmartChatError("pipeline failed")
         /\ chat_pc' = chat_result'.status
    /\ UNCHANGED <<agentvars, request, analysis, judge_input, context_eval>>

\* _run_rag_path: history = build_contextual_history(...) if conversation_id
\* else None, outside any try
RagHistory ==
    /\ chat_pc = "history"
    /\ IF ~request.conversation
       THEN /\ history' = "none"
            /\ chat_pc' = "retrieve"
            /\ UNCHANGED <<chat_result, chatCalls>>
       ELSE \E hp \in HistoryOutcomes :
              IF hp = "ok"
              THEN /\ history' = "loaded"
                   /\ chat_pc' = "retrieve"
                   /\ chatCalls' = [chatCalls EXCEPT !.history = @ + 1]
                   /\ UNCHANGED chat_result
              ELSE /\ history' = "unset"
                   /\ chat_pc' = "raised"
                   /\ chatCalls' = [chatCalls EXCEPT !.history = @ + 1,
                                                     !.historyFailed = @ + 1]
                   /\ chat_result' = SmartChatError("pipeline failed")
    /\ UNCHANGED <<agentvars, request, analysis, judge_input, context_eval>>

\* candidates = retrieve_expanded_context(...); reranked =
\* rerank_context_with_scores(...); top_context; avg_score (None when
\* nothing was reranked); the reranked contexts are one of contextsR
RetrieveRerankWith(contextsR) ==
    /\ chat_pc = "retrieve"
    /\ \/ /\ chat_pc' = "raised"
          /\ chat_result' = SmartChatError("pipeline failed")
          /\ chatCalls' = [chatCalls EXCEPT !.retrieve = @ + 1]
          /\ UNCHANGED judge_input
       \/ /\ \E c \in contextsR, t \in {0, analysis.tokens}, h \in 0..MaxInfoTokens,
                f \in 0..1, a \in AvgScores :
                /\ a.given <=> c # <<>>
                /\ ValidJudgeInput(JudgeInput(t, h, f, c, a))
                /\ judge_input' = JudgeInput(t, h, f, c, a)
          /\ chat_pc' = "judge"
          /\ chatCalls' = [chatCalls EXCEPT !.retrieve = @ + 1, !.rerank = @ + 1]
          /\ UNCHANGED chat_result
    /\ UNCHANGED <<agentvars, request, analysis, history, context_eval>>
RetrieveRerank == RetrieveRerankWith(ChatContexts)

\* context_eval = evaluate_context(analysis.tokens, top_context, avg_score);
\* the escalation test
Judge ==
    /\ chat_pc = "judge"
    /\ context_eval' = EvaluateContext(judge_input)
    /\ chatCalls' = [chatCalls EXCEPT !.judge = @ + 1]
    /\ chat_pc' = IF ShouldEscalate(context_eval', analysis) THEN "escalate"
                  ELSE "generate"
    /\ UNCHANGED <<agentvars, request, analysis, history, judge_input, chat_result>>

\* answer = generate_answer(query, top_context, history): LLMServiceError
\* becomes SmartChatError, so does any other exception (run_smart_chat)
Generate ==
    /\ chat_pc = "generate"
    /\ chatCalls' = [chatCalls EXCEPT !.generate = @ + 1]
    /\ \E gen \in GenOutcomes :
         chat_result' =
             CASE GenClass(gen) = "llm_error" -> SmartChatError("llm error")
               [] GenClass(gen) = "uncaught" -> SmartChatError("pipeline failed")
               [] OTHER -> SmartChatResult("rag", "direct rag", context_eval.reason,
                                           judge_input.contexts)
    /\ chat_pc' = chat_result'.status
    /\ UNCHANGED <<agentvars, request, analysis, history, judge_input, context_eval>>

ChatNext ==
    \/ Analyze
    \/ AgentPath
    \/ RagHistory
    \/ RetrieveRerank
    \/ Judge
    \/ Generate

ChatSpec == ChatInit /\ [][ChatNext]_vars

(***************************************************************************)
(* run_smart_chat driving DocumentAgent.run: the agent path taken with the *)
(* agent's own loop                                                        *)
(***************************************************************************)
\* _run_agent_path up to the first lines of run: agent = DocumentAgent(),
\* history = self._load_history(db, conversation_id)
EnterAgent ==
    /\ chat_pc \in {"agent", "escalate"}
    /\ pc = "loop"
    /\ iterations = 0
    /\ \E hp \in HistoryOutcomes :
         /\ history' = LoadHistory(request.conversation, hp)
         /\ chatCalls' =
              [chatCalls EXCEPT
                 !.agent = @ + 1,
                 !.history = @ + (IF request.conversation THEN 1 ELSE 0),
                 !.historyFailed =
                     @ + (IF request.conversation /\ hp = "fail" THEN 1 ELSE 0)]
    /\ chat_pc' = IF chat_pc = "agent" THEN "in_agent" ELSE "in_fallback"
    /\ UNCHANGED <<agentvars, request, analysis, judge_input, context_eval, chat_result>>

\* the for loop of _run_agent_path is reading the events of the run
InAgent == chat_pc \in {"in_agent", "in_fallback"}

\* payload.get("context", []) of the final event: the all_context that
\* synthesize returned
FinalContext == SynthesizerSynthesize("text", goal, results).context

\* the generator ended or raised: `if not final_answer: raise SmartChatError`,
\* return; run_smart_chat wraps any other exception
LeaveAgent ==
    /\ InAgent
    /\ pc \in {"done", "raised"}
    /\ chat_result' =
         IF pc = "raised" THEN SmartChatError("pipeline failed")
         ELSE IF final_answer = NoAnswer THEN SmartChatError("no final answer")
         ELSE IF chat_pc = "in_agent"
              THEN SmartChatResult("agent", "routed to agent", "", FinalContext)
              ELSE SmartChatResult("agent_fallback", "escalated to agent",
                                   context_eval.reason, FinalContext)
    /\ chat_pc' = chat_result'.status
    /\ UNCHANGED <<agentvars, request, analysis, history, judge_input, context_eval,
                   chatCalls>>

(***************************************************************************)
(* The request "Compare the retry strategy and the timeout strategy"       *)
(***************************************************************************)
CompareGoalWords ==
    <<"compare", "the", "retry", "strategy", "and", "the", "timeout", "strategy">>

\* the planner's model names two sub-questions, or the call fails
ComparePlans ==
    { [kind |-> "object", tasks |-> ListValue(<<" q1 ", " q2 ">>)],
      [kind |-> "raise", tasks |-> NullValue] }
\* generate_answer answers, or the key is missing
CompareGens == {"text", "no_key"}
\* the evaluator's model scores the answers above the threshold
CompareScore == agent_eval_threshold + 1
CompareEvals ==
    [kind : {"object"}, score : {CompareScore}, completeness : {4}, accuracy : {4},
     sufficient : {"true", "false", "absent"},
     gaps : {ListValue(<<>>), ListValue(<<" g1 ">>)}]
    \cup { EvalOther("raise") }

CompareInit ==
    /\ AgentIdle
    /\ NoServiceCalls
    /\ NoApi
    /\ NoTable
    /\ NoAuth
    /\ request \in { RequestOf(CompareGoalWords, c) : c \in BOOLEAN }
    /\ analysis = NoAnalysis
    /\ chat_pc = "start"
    /\ history = "unset"
    /\ judge_input = NoJudgeInput
    /\ context_eval = NotJudged
    /\ chat_result = NoResult
    /\ chatCalls = NoChatCalls

\* max_iter is settings.agent_max_iterations here, so the while condition
\* is never false at the top of the loop: StopBudget leaves first
CompareNext ==
    \/ Analyze
    \/ EnterAgent
    \/ InAgent /\ PlanGoalWith(ComparePlans)
    \/ InAgent /\ PlanGaps
    \/ InAgent /\ NoGapsBreak
    \/ InAgent /\ StepStart
    \/ InAgent /\ ExecuteWith(CompareGens)
    \/ InAgent /\ EvaluateWith(CompareEvals)
    \/ InAgent /\ StopSufficient
    \/ InAgent /\ StopBudget
    \/ InAgent /\ Continue
    \/ InAgent /\ SynthesizeWith(SynthOutcomes)
    \/ InAgent /\ Return
    \/ LeaveAgent

CompareSpec == CompareInit /\ [][CompareNext]_vars

(***************************************************************************)
(* run_smart_chat for a user without documents                             *)
(***************************************************************************)
\* a direct lookup, a request in the escalation band and one that prefers
\* the agent
LookupGoalWords == <<"what", "is", "retry">>
AnalyzeGoalWords == <<"analyze", "the", "retry", "and", "timeout">>
EmptyCorpusGoals == {LookupGoalWords, AnalyzeGoalWords, CompareGoalWords}

\* no chunk belongs to the user: every retrieval of the rag path gives
\* nothing to rerank
NoContext == { <<>> }

\* retrieval_up = FALSE: RetrievalTool.run gives [] for every sub-question
EmptyCorpusInit ==
    /\ goal = "goal"
    /\ max_iter = agent_max_iterations
    /\ retrieval_up = FALSE
    /\ FreshRun
    /\ CallerReads
    /\ NoOtherRuns
    /\ NoServiceCalls
    /\ NoApi
    /\ NoTable
    /\ NoAuth
    /\ request \in { RequestOf(w, c) : w \in EmptyCorpusGoals, c \in BOOLEAN }
    /\ analysis = NoAnalysis
    /\ chat_pc = "start"
    /\ history = "unset"
    /\ judge_input = NoJudgeInput
    /\ context_eval = NotJudged
    /\ chat_result = NoResult
    /\ chatCalls = NoChatCalls

EmptyCorpusNext ==
    \/ Analyze
    \/ RagHistory
    \/ RetrieveRerankWith(NoContext)
    \/ Judge
    \/ Generate
    \/ EnterAgent
    \/ InAgent /\ PlanGoalWith(ComparePlans)
    \/ InAgent /\ PlanGaps
    \/ InAgent /\ NoGapsBreak
    \/ InAgent /\ StepStart
    \/ InAgent /\ ExecuteWith(CompareGens)
    \/ InAgent /\ EvaluateWith(CompareEvals)
    \/ InAgent /\ StopSufficient
    \/ InAgent /\ StopBudget
    \/ InAgent /\ Continue
    \/ InAgent /\ SynthesizeWith(SynthOutcomes)
    \/ InAgent /\ Return
    \/ LeaveAgent

EmptyCorpusSpec == EmptyCorpusInit /\ [][EmptyCorpusNext]_vars

(***************************************************************************)
(* DocumentAgent.run while the generation backend is down                  *)
(***************************************************************************)
\* AgentRequest.goal has min_length=1 and is passed on as it is: a goal
\* may carry blanks around it or be blank
DownGoals == {"goal", " goal ", " "}
\* planner._call_gemini_raw raises
DownPlans == { r \in PlanResponses : r.kind = "raise" }
\* evaluator._call_gemini_raw raises
DownEvals == { EvalOther("raise") }

GenDownInit ==
    /\ goal \in DownGoals
    /\ max_iter \in 0..agent_max_iterations
    /\ retrieval_up \in BOOLEAN
    /\ FreshRun
    /\ CallerReads
    /\ NoOtherRuns
    /\ NoChat
    /\ NoServiceCalls
    /\ NoApi
    /\ NoTable
    /\ NoAuth

\* no StepResult is usable, so no evaluation is sufficient and the gaps
\* are never empty: the loop leaves by its budget or by its guard
GenDownNext ==
    \/ PlanGoalWith(DownPlans)
    \/ PlanGaps
    \/ GuardExit
    \/ StepStart
    \/ ExecuteWith(GenLLMError)
    \/ EvaluateWith(DownEvals)
    \/ StopBudget
    \/ Continue
    \/ SynthesizeWith(SynthLLMError)
    \/ Return

GenDownSpec == GenDownInit /\ [][GenDownNext]_vars

(***************************************************************************)
(* api/agent.py: POST /agent, the run streamed and persisted               *)
(***************************************************************************)
\* what the backends answer during the streamed runs
ApiPlans == { r \in PlanResponses : r.kind = "raise" }
ApiGens == {"text", "no_key", "bad_body"}
ApiEvals ==
    { e \in EvalObjects : /\ e.sufficient = "false"
                          /\ e.score = agent_eval_threshold - 1
                          /\ IsNumber(e.completeness) }
    \cup { EvalOther("raise") }
ApiSynths == {"text", "network"}

\* run_agent: the AgentRun row is added with status "running" and committed,
\* then the StreamingResponse starts event_stream
ApiInit ==
    /\ goal \in Goals
    /\ max_iter \in 1..StreamMaxIter
    /\ retrieval_up = TRUE
    /\ FreshRun
    /\ CallerReads
    /\ NoOtherRuns
    /\ NoChat
    /\ NoServiceCalls
    /\ api_pc = "streaming"
    /\ persisted_run = [status |-> "running", final_answer |-> NoneAnswer]
    /\ error_msg = None
    /\ seen_answer = NoneAnswer
    /\ sse = <<>>
    /\ NoTable
    /\ NoAuth

\* event_stream has passed on every event agent.run has yielded
Forwarded == Len(sse) = Len(events)
\* event_stream asks agent.run for its next event
Driving == api_pc = "streaming" /\ CallerReads /\ Forwarded

\* the body of `for event in agent.run(...)`: final_answer is taken from
\* the final event; yield _sse_line(evt_type, evt_data)
Forward ==
    /\ api_pc = "streaming"
    /\ CallerReads
    /\ ~Forwarded
    /\ LET event == events[Len(sse) + 1] IN
         /\ seen_answer' = IF event.type = "final" THEN final_answer ELSE seen_answer
         /\ sse' = Append(sse, event.type)
    /\ UNCHANGED <<config, iterations, plan, results, eval_history, final_answer,
                   pc, idx, events, counters, evalAllRaised, loopExit, call,
                   consumer, runs, made, chatvars, services, chunk_table, authvars,
                   api_pc, persisted_run, error_msg>>

\* except Exception as exc: error_msg = str(exc); yield the error line
StreamError ==
    /\ Driving
    /\ pc = "raised"
    /\ error_msg' = ExcText
    /\ sse' = Append(sse, "error")
    /\ api_pc' = "error_sent"
    /\ UNCHANGED <<config, iterations, plan, results, eval_history, final_answer,
                   pc, idx, events, counters, evalAllRaised, loopExit, call,
                   consumer, runs, made, chatvars, services, chunk_table, authvars,
                   persisted_run, seen_answer>>

\* the finally block: the row gets its status and final_answer and is
\* committed; when that fails the exception is logged and the row stays
Persist(db_ok) ==
    /\ persisted_run' =
         IF db_ok
         THEN [status |-> IF error_msg # None THEN "failed" ELSE "completed",
               final_answer |-> seen_answer]
         ELSE persisted_run
    /\ api_pc' = "closed"
    /\ UNCHANGED <<config, iterations, plan, results, eval_history, final_answer,
                   pc, idx, events, counters, evalAllRaised, loopExit, call,
                   consumer, runs, made, chatvars, services, chunk_table, authvars,
                   error_msg, seen_answer, sse>>

\* agent.run is exhausted, or the error line was taken: the generator runs
\* to its end through finally
EndOfStream ==
    /\ CallerReads
    /\ \/ api_pc = "streaming" /\ Forwarded /\ pc = "done"
       \/ api_pc = "error_sent"
    /\ \E db_ok \in BOOLEAN : Persist(db_ok)

\* the client goes away while event_stream is suspended at one of its
\* yields: the response stops asking for lines
ClientGoes ==
    /\ CallerReads
    /\ api_pc \in {"streaming", "error_sent"}
    /\ sse # <<>>
    /\ Forwarded
    /\ consumer' = "stopped"
    /\ UNCHANGED <<config, iterations, plan, results, eval_history, final_answer,
                   pc, idx, events, counters, evalAllRaised, loopExit, call,
                   runs, made, chatvars, services, apivars, chunk_table, authvars>>

\* the abandoned generator is closed: GeneratorExit is raised at the yield,
\* `except Exception` does not catch it, finally runs
CloseStream ==
    /\ consumer = "stopped"
    /\ api_pc \in {"streaming", "error_sent"}
    /\ \E db_ok \in BOOLEAN : Persist(db_ok)

ApiNext ==
    \/ Driving /\ PlanGoalWith(ApiPlans)
    \/ Driving /\ PlanGaps
    \/ Driving /\ NoGapsBreak
    \/ Driving /\ StepStart
    \/ Driving /\ ExecuteWith(ApiGens)
    \/ Driving /\ EvaluateWith(ApiEvals)
    \/ Driving /\ StopSufficient
    \/ Driving /\ StopBudget
    \/ Driving /\ Continue
    \/ Driving /\ SynthesizeWith(ApiSynths)
    \/ Driving /\ Return
    \/ Forward
    \/ StreamError
    \/ EndOfStream
    \/ ClientGoes
    \/ CloseStream

ApiSpec == ApiInit /\ [][ApiNext]_vars

(***************************************************************************)
(* api/auth.py and core/security.py: register, login, /me.  The clock      *)
(* counts in units of settings.access_token_expire_minutes.                *)
(***************************************************************************)
MaxClock == 2
TokenLifetime == 1

Emails == {"a@x.org", "A@x.org", "b@x.org"}
Passwords == {"password1", "password2"}
\* str.lower()
Lower(email) == IF email = "A@x.org" THEN "a@x.org" ELSE email

\* passlib's pbkdf2_sha256: a hash is not the password, and verify accepts
\* the password it was made from and no other
HashPassword(password) == <<"$pbkdf2-sha256$", password>>
\* verification forgotten: any password passes
VerifyAnything(plain_password, hashed_password) == TRUE
VerifyPassword(plain_password, hashed_password) ==
    hashed_password = HashPassword(plain_password)

\* str(user.id) and int(subject)
StrOf(n) == <<"str", n>>
IntOf(subject) == subject[2]

\* create_access_token({"sub": str(user.id), "email": user.email}): signed
\* with settings.secret_key, exp = now + the lifetime
CreateAccessToken(user, at) ==
    [kind |-> "signed", sub |-> StrOf(user.id), email |-> user.email,
     exp |-> at + TokenLifetime]
\* a string that is not a token signed with the key
Garbage == [kind |-> "garbage", sub |-> "", email |-> "", exp |-> 0]
\* decode_access_token: None (FALSE here) for a bad signature or a passed exp
Decodes(token, at) == token.kind = "signed" /\ token.exp >= at

\* select(User).where(User.email == email).scalar_one_or_none()
UsersWithEmail(email) == { i \in 1..Len(users) : users[i].email = email }
\* select(User).where(User.id == user_id).scalar_one_or_none()
UsersWithId(id) == { i \in 1..Len(users) : users[i].id = id }

AuthResponse(op, email, password, credentials, status, token, user, known) ==
    [op |-> op, email |-> email, password |-> password, credentials |-> credentials,
     status |-> status, token |-> token, user |-> user, at |-> now, known |-> known]
\* some successful register was given this email, in any case of letters
Known(email) == \E r \in registered : Lower(r.email) = Lower(email)

AuthInit ==
    /\ AgentIdle
    /\ NoChat
    /\ NoServiceCalls
    /\ NoApi
    /\ NoTable
    /\ users = <<>>
    /\ now = 0
    /\ auth_response = NoAuthResponse
    /\ registered = {}
    /\ issued = {}

notauth == <<config, iterations, plan, results, eval_history, final_answer,
             pc, idx, events, counters, evalAllRaised, loopExit, call,
             consumer, runs, made, chatvars, services, apivars, chunk_table>>

\* POST /auth/register
Register ==
    \E email \in Emails, password \in Passwords, db_ok \in BOOLEAN :
        LET user == [id |-> Len(users) + 1, email |-> Lower(email),
                     hashed_password |-> HashPassword(password)]
            token == CreateAccessToken(user, now)
        IN /\ IF UsersWithEmail(Lower(email)) # {}
              THEN /\ auth_response' = AuthResponse("register", email, password, NoToken,
                                                    409, NoToken, NoUser, Known(email))
                   /\ UNCHANGED <<users, registered, issued>>
              ELSE IF ~db_ok
              THEN /\ auth_response' = AuthResponse("register", email, password, NoToken,
                                                    503, NoToken, NoUser, Known(email))
                   /\ UNCHANGED <<users, registered, issued>>
              ELSE /\ users' = Append(users, user)
                   /\ auth_response' = AuthResponse("register", email, password, NoToken,
                                                    201, token, user, Known(email))
                   /\ registered' = registered \cup
                         { [email |-> email, password |-> password, id |-> user.id] }
                   /\ issued' = issued \cup {token}
           /\ UNCHANGED <<notauth, now>>

\* POST /auth/login
Login ==
    \E email \in Emails, password \in Passwords :
        LET found == UsersWithEmail(Lower(email))
            user == users[CHOOSE i \in found : TRUE]
        IN /\ IF found = {} \/ ~VerifyPassword(password, user.hashed_password)
              THEN /\ auth_response' = AuthResponse("login", email, password, NoToken,
                                                    401, NoToken, NoUser, Known(email))
                   /\ UNCHANGED issued
              ELSE /\ auth_response' = AuthResponse("login", email, password, NoToken, 200,
                                                    CreateAccessToken(user, now), user,
                                                    Known(email))
                   /\ issued' = issued \cup { CreateAccessToken(user, now) }
           /\ UNCHANGED <<notauth, users, now, registered>>

\* GET /auth/me through get_current_user: no credentials, a string that
\* does not decode, or a token handed out earlier
Me ==
    \E credentials \in {NoToken, Garbage} \cup issued :
        LET found == IF Decodes(credentials, now)
                     THEN UsersWithId(IntOf(credentials.sub)) ELSE {}
        IN /\ auth_response' =
                 IF credentials = NoToken \/ ~Decodes(credentials, now) \/ found = {}
                 THEN AuthResponse("me", "", "", credentials, 401, NoToken, NoUser, FALSE)
                 ELSE AuthResponse("me", "", "", credentials, 200, NoToken,
                                   users[CHOOSE i \in found : TRUE], FALSE)
           /\ UNCHANGED <<notauth, users, now, registered, issued>>

\* time passes
Tick ==
    /\ now < MaxClock
    /\ now' = now + 1
    /\ UNCHANGED <<notauth, users, auth_response, registered, issued>>

AuthNext ==
    \/ Register
    \/ Login
    \/ Me
    \/ Tick

AuthSpec == AuthInit /\ [][AuthNext]_vars

(***************************************************************************)
(* retrieval_service.py: retrieve_context on its own                       *)
(***************************************************************************)
\* nothing but a service function runs
OnlyServices == AgentIdle /\ NoChat

RetrieveInit ==
    /\ OnlyServices
    /\ NoApi
    /\ NoTable
    /\ NoAuth
    /\ NoFusion
    /\ NoRerank
    /\ NoChunking
    /\ ret_call \in RetrieveCalls
    /\ ValidRetrieveCall(ret_call)
    /\ ret_pc = "start"
    /\ dense_results = <<>>
    /\ keyword_results = <<>>
    /\ ret_result = <<>>

notservices == <<config, iterations, plan, results, eval_history, final_answer,
                 pc, idx, events, counters, evalAllRaised, loopExit, call,
                 consumer, runs, made, chatvars, chunkvars, apivars, chunk_table, authvars>>

\* cleaned_query = query.strip(); if not cleaned_query: return []
CleanQuery ==
    /\ ret_pc = "start"
    /\ ret_pc' = IF ret_call.blank THEN "done" ELSE "dense"
    /\ UNCHANGED <<notservices, fusevars, rankvars, ret_call, dense_results, keyword_results, ret_result>>

\* lines 90-94: only EmbeddingServiceError is caught
DenseSearch ==
    /\ ret_pc = "dense"
    /\ IF DenseRaises(ret_call.dense)
       THEN ret_pc' = "raised" /\ UNCHANGED dense_results
       ELSE ret_pc' = "keyword" /\ dense_results' = DenseResults(ret_call.dense)
    /\ UNCHANGED <<notservices, fusevars, rankvars, ret_call, keyword_results, ret_result>>

\* lines 96-99
KeywordSearch ==
    /\ ret_pc = "keyword"
    /\ keyword_results' = KeywordResults(ret_call.keyword)
    /\ ret_pc' = "merge"
    /\ UNCHANGED <<notservices, fusevars, rankvars, ret_call, dense_results, ret_result>>

\* lines 101-107
ReturnRows ==
    /\ ret_pc = "merge"
    /\ ret_result' = CombineSignals(dense_results, keyword_results,
                                    ret_call.corpus, ret_call.k)
    /\ ret_pc' = "done"
    /\ UNCHANGED <<notservices, fusevars, rankvars, ret_call, dense_results, keyword_results>>

RetrieveNext ==
    \/ CleanQuery
    \/ DenseSearch
    \/ KeywordSearch
    \/ ReturnRows

RetrieveSpec == RetrieveInit /\ [][RetrieveNext]_vars

(***************************************************************************)
(* advanced_retrieval_service.py: retrieve_expanded_context on its own     *)
(***************************************************************************)
MaxFuseCorpus == 4

\* the queries are variants of one query of one user, asked with k = candidate_k
FuseInit ==
    /\ OnlyServices
    /\ NoApi
    /\ NoTable
    /\ NoAuth
    /\ NoRetrieval
    /\ NoRerank
    /\ NoChunking
    /\ \E k \in 1..MaxCandidateK, n \in {0, MaxFuseCorpus}, m \in 0..MaxQueries :
         \E qs \in [1..m -> ExpandedCalls(UserChunks(n), k)] :
            fuse_call = ExpandedCall(qs, k)
    /\ fuse_pc = "start"
    /\ rows_by_query = <<>>
    /\ all_ranked = <<>>
    /\ fuse_result = <<>>

\* if not expanded_queries: return []
NoQueries ==
    /\ fuse_pc = "start"
    /\ fuse_call.queries = <<>>
    /\ fuse_pc' = "done"
    /\ UNCHANGED <<notservices, retvars, rankvars, fuse_call, rows_by_query, all_ranked, fuse_result>>

\* one round of `for query in expanded_queries` (lines 36-39)
RetrieveVariant ==
    /\ fuse_pc = "start"
    /\ Len(rows_by_query) < Len(fuse_call.queries)
    /\ LET r == RetrieveContext(fuse_call.queries[Len(rows_by_query) + 1])
       IN IF r.raised
          THEN fuse_pc' = "raised" /\ UNCHANGED <<rows_by_query, all_ranked>>
          ELSE /\ rows_by_query' = Append(rows_by_query, r.rows)
               /\ all_ranked' = IF r.rows # <<>> THEN Append(all_ranked, r.rows)
                                ELSE all_ranked
               /\ UNCHANGED fuse_pc
    /\ UNCHANGED <<notservices, retvars, rankvars, fuse_call, fuse_result>>

\* lines 41-46
FuseReturn ==
    /\ fuse_pc = "start"
    /\ fuse_call.queries # <<>>
    /\ Len(rows_by_query) = Len(fuse_call.queries)
    /\ fuse_result' = FuseRanked(all_ranked, fuse_call.candidate_k)
    /\ fuse_pc' = "done"
    /\ UNCHANGED <<notservices, retvars, rankvars, fuse_call, rows_by_query, all_ranked>>

FuseNext ==
    \/ NoQueries
    \/ RetrieveVariant
    \/ FuseReturn

FuseSpec == FuseInit /\ [][FuseNext]_vars

(***************************************************************************)
(* retrieve_context and retrieve_expanded_context over the chunks of       *)
(* several users.  What a chunk is to a query is kept per query: its       *)
(* cosine distance (NoVector without an embedding), its ts_rank_cd (0      *)
(* when the text search does not match) and the number of query terms it   *)
(* contains.  Rows that a search ranks alike come in the order of the      *)
(* table.                                                                  *)
(***************************************************************************)
NoVector == 0 - 1
QueryIds == {"qa", "qb"}
Users == {1, 2}

ChunkRow(content, user_id, distance, rank, term_hits) ==
    [content |-> content, user_id |-> user_id, distance |-> distance,
     rank |-> rank, term_hits |-> term_hits]
PerQuery(a, b) == [q \in QueryIds |-> IF q = "qa" THEN a ELSE b]

\* chunks of two users, oldest first; "c1" is the text of a chunk of each
AllRows ==
    << ChunkRow("c1", 1, PerQuery(2, 1), PerQuery(1, 0), PerQuery(1, 0)),
       ChunkRow("c4", 2, PerQuery(0, 3), PerQuery(3, 1), PerQuery(3, 0)),
       ChunkRow("c2", 1, PerQuery(NoVector, NoVector), PerQuery(2, 0), PerQuery(2, 1)),
       ChunkRow("c1", 2, PerQuery(NoVector, NoVector), PerQuery(0, 3), PerQuery(0, 2)),
       ChunkRow("c3", 1, PerQuery(1, 2), PerQuery(0, 0), PerQuery(0, 0)),
       ChunkRow("c5", 2, PerQuery(3, 0), PerQuery(0, 0), PerQuery(0, 0)) >>
\* the tables: any of these rows may be absent
Tables ==
    { SelectSeq(AllRows, LAMBDA r : r \in kept) : kept \in SUBSET Range(AllRows) }

\* the WHERE clause left out: every row of the join
EveryRow(table, user_id) == 1..Len(table)
\* .join(Document, ...).where(Document.user_id == user_id)
Owned(table, user_id) == { i \in 1..Len(table) : table[i].user_id = user_id }

\* ORDER BY key DESC over the rows `among`
RECURSIVE OrderByDesc(_, _)
OrderByDesc(among, key) ==
    IF among = {} THEN <<>>
    ELSE LET first == CHOOSE i \in among :
                         \A j \in among : key[i] > key[j] \/ (key[i] = key[j] /\ i <= j)
         IN <<first>> \o OrderByDesc(among \ {first}, key)
\* select(Chunk.content): the contents of the rows at these places
Contents(table, places) == [n \in 1..Len(places) |-> table[places[n]].content]

\* _dense_retrieval, once embed_query has returned
DenseRows(table, q, limit, user_id) ==
    LET among == { i \in Owned(table, user_id) : table[i].distance[q] # NoVector }
        key == [i \in 1..Len(table) |-> 0 - table[i].distance[q]]
    IN Contents(table, FirstK(OrderByDesc(among, key), limit))
\* _keyword_retrieval
KeywordRows(table, q, limit, user_id) ==
    LET among == { i \in Owned(table, user_id) : table[i].rank[q] > 0 }
        key == [i \in 1..Len(table) |-> table[i].rank[q]]
    IN Contents(table, FirstK(OrderByDesc(among, key), limit))
\* _keyword_fallback
FallbackRows(table, q, limit, user_id) ==
    LET among == { i \in Owned(table, user_id) : table[i].term_hits[q] > 0 }
        key == [i \in 1..Len(table) |-> table[i].term_hits[q]]
    IN Contents(table, FirstK(OrderByDesc(among, key), limit))
\* the rows _recent_user_chunks reads, oldest first
UserRows(table, user_id) ==
    Contents(table, Reverse(OrderByDesc(Owned(table, user_id),
                                        [i \in 1..Len(table) |-> i])))

\* a query of a call: blank or not, which query it is, what embed_query and
\* the text search do
ScopedQuery(blank, q, embed, fts) == [blank |-> blank, q |-> q, embed |-> embed, fts |-> fts]
ScopedQueries ==
    { ScopedQuery(TRUE, "qa", "ok", "ok"), ScopedQuery(FALSE, "qa", "query_error", "ok") }
    \cup { ScopedQuery(FALSE, q, e, f) :
             q \in QueryIds, e \in {"ok", "embedding_error"}, f \in {"ok", "error"} }

\* retrieve_context(db, query, user_id, k)
RetrieveFrom(table, query, user_id, k) ==
    IF query.blank THEN [raised |-> FALSE, rows |-> <<>>]
    ELSE IF query.embed = "query_error" THEN [raised |-> TRUE, rows |-> <<>>]
    ELSE LET dense_rows == IF query.embed = "ok"
                           THEN DenseRows(table, query.q, k * 3, user_id) ELSE <<>>
             keyword_rows == IF query.fts = "ok"
                             THEN KeywordRows(table, query.q, k * 3, user_id)
                             ELSE FallbackRows(table, query.q, k * 3, user_id)
         IN [raised |-> FALSE,
             rows |-> CombineSignals(dense_rows, keyword_rows,
                                     UserRows(table, user_id), k)]

\* retrieve_expanded_context(db, user_id, expanded_queries, candidate_k)
ScopedCall(user_id, queries, candidate_k) ==
    [user_id |-> user_id, queries |-> queries, candidate_k |-> candidate_k]

MaxScopedQueries == 2

ScopeInit ==
    /\ OnlyServices
    /\ NoApi
    /\ NoRetrieval
    /\ NoRerank
    /\ NoChunking
    /\ NoAuth
    /\ chunk_table \in Tables
    /\ \E u \in Users, k \in {1, MaxCandidateK}, m \in 0..MaxScopedQueries :
         \E qs \in [1..m -> ScopedQueries] :
            fuse_call = ScopedCall(u, qs, k)
    /\ fuse_pc = "start"
    /\ rows_by_query = <<>>
    /\ all_ranked = <<>>
    /\ fuse_result = <<>>

\* one round of `for query in expanded_queries`: retrieve_context runs its
\* searches on the table
RetrieveScoped ==
    /\ fuse_pc = "start"
    /\ Len(rows_by_query) < Len(fuse_call.queries)
    /\ LET r == RetrieveFrom(chunk_table, fuse_call.queries[Len(rows_by_query) + 1],
                             fuse_call.user_id, fuse_call.candidate_k)
       IN IF r.raised
          THEN fuse_pc' = "raised" /\ UNCHANGED <<rows_by_query, all_ranked>>
          ELSE /\ rows_by_query' = Append(rows_by_query, r.rows)
               /\ all_ranked' = IF r.rows # <<>> THEN Append(all_ranked, r.rows)
                                ELSE all_ranked
               /\ UNCHANGED fuse_pc
    /\ UNCHANGED <<notservices, retvars, rankvars, fuse_call, fuse_result>>

ScopeNext ==
    \/ NoQueries
    \/ RetrieveScoped
    \/ FuseReturn

ScopeSpec == ScopeInit /\ [][ScopeNext]_vars

(***************************************************************************)
(* reranker_service.py: rerank_context_with_scores on its own              *)
(***************************************************************************)
RerankInit ==
    /\ OnlyServices
    /\ NoApi
    /\ NoTable
    /\ NoAuth
    /\ NoRetrieval
    /\ NoFusion
    /\ NoChunking
    /\ \E t \in 0..MaxRerankTerms, k \in 0..MaxRerankK, e \in EmbedOutcomes :
         \E cs \in CandidateLists(t) : rank_call = RerankCall(t, Named(cs), k, e)
    /\ rank_pc = "start"
    /\ have_vectors = FALSE
    /\ rank_result = <<>>

\* if not contexts: return []
NoContexts ==
    /\ rank_pc = "start"
    /\ rank_call.contexts = <<>>
    /\ rank_pc' = "done"
    /\ UNCHANGED <<notservices, retvars, fusevars, rank_call, have_vectors, rank_result>>

\* lines 55-63: only EmbeddingServiceError is caught
Embed ==
    /\ rank_pc = "start"
    /\ rank_call.contexts # <<>>
    /\ IF rank_call.embed \in EmbedUncaught
       THEN rank_pc' = "raised" /\ UNCHANGED have_vectors
       ELSE rank_pc' = "score" /\ have_vectors' = (rank_call.embed = "vectors")
    /\ UNCHANGED <<notservices, retvars, fusevars, rank_call, rank_result>>

\* lines 65-89
ScoreSortReturn ==
    /\ rank_pc = "score"
    /\ rank_result' = ScoreAndSort(rank_call.contexts, rank_call.terms,
                                   have_vectors, rank_call.k)
    /\ rank_pc' = "done"
    /\ UNCHANGED <<notservices, retvars, fusevars, rank_call, have_vectors>>

RerankNext ==
    \/ NoContexts
    \/ Embed
    \/ ScoreSortReturn

RerankSpec == RerankInit /\ [][RerankNext]_vars

(***************************************************************************)
(* chunking_service.py: chunk_text on its own                              *)
(***************************************************************************)
ChunkInit ==
    /\ OnlyServices
    /\ NoApi
    /\ NoTable
    /\ NoAuth
    /\ NoRetrieval
    /\ NoFusion
    /\ NoRerank
    /\ text \in ChunkTexts
    /\ chunk_size \in ChunkSizes
    /\ overlap \in Overlaps
    /\ chunk_pc = "start"
    /\ normalized = <<>>
    /\ start = 0
    /\ chunks = <<>>

notchunking == <<config, iterations, plan, results, eval_history, final_answer,
                 pc, idx, events, counters, evalAllRaised, loopExit, call,
                 consumer, runs, made, chatvars, retvars, fusevars, rankvars,
                 apivars, chunk_table, authvars>>

\* normalized = _normalize_text(text); if not normalized: return []; the
\* two checks of the parameters; chunks = []; start = 0
Prepare ==
    /\ chunk_pc = "start"
    /\ normalized' = NormalizeText(text)
    /\ chunk_pc' = IF normalized' = <<>> THEN "returned"
                   ELSE IF overlap >= chunk_size THEN "raised"
                   ELSE IF chunk_size < min_chunk_size THEN "raised"
                   ELSE "loop"
    /\ UNCHANGED <<notchunking, text, chunk_size, overlap, start, chunks>>

\* one pass of the while loop; at most MaxPieces chunks are followed
CutChunk ==
    /\ chunk_pc = "loop"
    /\ start < Len(normalized)
    /\ Len(chunks) < MaxPieces
    /\ LET end == ChunkEnd(normalized, start, chunk_size)
           chunk == StripText(Slice(normalized, start, end))
       IN /\ chunks' = IF chunk # <<>> THEN Append(chunks, chunk) ELSE chunks
          /\ IF end >= Len(normalized)
             THEN /\ chunk_pc' = "returned"
                  /\ UNCHANGED start
             ELSE /\ start' = end - overlap
                  /\ UNCHANGED chunk_pc
    /\ UNCHANGED <<notchunking, text, chunk_size, overlap, normalized>>

\* the while condition is false: return chunks
PastTheEnd ==
    /\ chunk_pc = "loop"
    /\ start >= Len(normalized)
    /\ chunk_pc' = "returned"
    /\ UNCHANGED <<notchunking, text, chunk_size, overlap, normalized, start, chunks>>

ChunkNext ==
    \/ Prepare
    \/ CutChunk
    \/ PastTheEnd

ChunkSpec == ChunkInit /\ [][ChunkNext]_vars

(***************************************************************************)
(* Properties                                                              *)
(***************************************************************************)
Terminated == pc \in {"done", "raised"}
AllFailed(rs) == \A i \in 1..Len(rs) : rs[i].failed
CountEvents(type) == Cardinality({i \in 1..Len(events) : events[i].type = type})

\* The number of steps DocumentAgent.run can still take: a full iteration is
\* at most one plan step, two steps per task, the evaluation and the check.
StepsPerIteration == 2 * MaxSubtasks + 3
StepsInIteration ==
    CASE pc = "exec" -> 2 * (MaxSubtasks + 1 - idx) + 2
      [] pc = "step" -> 2 * (MaxSubtasks + 1 - idx) + 1
      [] pc = "check" -> 1
      [] OTHER -> 0
RunMeasure ==
    CASE pc \in {"loop", "exec", "step", "check"} ->
             (max_iter - iterations) * StepsPerIteration + StepsInIteration + 3
      [] pc = "synth" -> 2
      [] pc = "final" -> 1
      [] OTHER -> 0

\* C1: whatever the backends answer, a run makes at most max_iterations
\* plan -> execute -> evaluate cycles: the Planner and the Evaluator are
\* called at most max_iterations times each, the Executor at most
\* max_iterations * max_subtasks times, and the run cannot go on forever:
\* RunMeasure is a natural number that every step of the run decreases.
C1_BoundedRun ==
    /\ [](/\ iterations <= max_iter
          /\ plannerCalls <= max_iter
          /\ evaluatorCalls <= max_iter
          /\ CountEvents("plan") <= max_iter
          /\ executorCalls <= max_iter * MaxSubtasks
          /\ RunMeasure >= 0)
    /\ [][RunMeasure' < RunMeasure]_vars
\* a run that used its whole budget and finished
C1_Witness ==
    /\ pc = "done"
    /\ max_iter = agent_max_iterations
    /\ plannerCalls = max_iter
    /\ evaluatorCalls = max_iter
    /\ executorCalls = max_iter * MaxSubtasks

\* the evaluation of iteration i asks for another iteration
WantsReplan(i) ==
    /\ ~eval_history[i].sufficient
    /\ i < max_iter
    /\ Truthy(eval_history[i].gaps)

\* C2: after the evaluation of iteration i the Planner is called for
\* iteration i+1 if and only if that evaluation is not sufficient, i is
\* below max_iterations and its gap list is not empty; otherwise the run goes
\* to synthesis and calls Planner, Executor and Evaluator no more.
C2_ReplanIff ==
    /\ [](\A i \in 1..Len(eval_history) : plannerCalls > i => WantsReplan(i))
    /\ [][/\ pc = "check" =>
               IF ~Last(eval_history).sufficient /\ iterations < max_iter
               THEN pc' = "loop" ELSE pc' = "synth"
          /\ (pc = "loop" /\ iterations >= 1) =>
               IF WantsReplan(iterations)
               THEN plannerCalls' = plannerCalls + 1
               ELSE pc' = "synth" /\ plannerCalls' = plannerCalls
          /\ loopExit # "none" =>
               UNCHANGED <<plannerCalls, executorCalls, evaluatorCalls>>]_vars
\* iteration 2 reported no gaps with budget left: the Planner was called twice
C2_Witness ==
    /\ loopExit = "no_gaps"
    /\ Len(eval_history) = 2
    /\ max_iter = agent_max_iterations
    /\ plannerCalls = 2
    /\ pc = "done"

\* some StepResult of iteration 1 is not failed
FirstIterationGood ==
    \E i \in 1..Len(events) :
        events[i].type = "step_result" /\ events[i].iteration = 1 /\ ~events[i].failed
FailSafeStop ==
    /\ Len(eval_history) = 1
    /\ iterations = 1
    /\ plannerCalls = 1
    /\ eval_history[1].sufficient
    /\ eval_history[1].score = agent_eval_threshold

\* C3 as stated: if the backend raises on every Evaluator call, the loop ends
\* after iteration 1 with sufficient = true and score = threshold (here for
\* the finished runs of the default configuration that executed a task).
C3_Original ==
    (/\ pc = "done"
     /\ max_iter = agent_max_iterations
     /\ executorCalls >= 1
     /\ evaluatorCalls >= 1
     /\ evalAllRaised) => FailSafeStop
\* C3 amended: if iteration 1 yields a StepResult that is not failed and the
\* backend raises on every Evaluator call, the loop ends after iteration 1
\* with sufficient = true and score = threshold.
C3_FailSafe ==
    (evaluatorCalls >= 1 /\ evalAllRaised /\ FirstIterationGood) =>
        (FailSafeStop /\ (pc = "check" \/ loopExit = "sufficient"))
C3_Witness ==
    /\ pc = "done"
    /\ max_iter = agent_max_iterations
    /\ evalAllRaised
    /\ FirstIterationGood
    /\ loopExit = "sufficient"

\* the model claimed sufficient = true with a score below the threshold
ClaimedTrueBelow ==
    /\ pc = "check"
    /\ call.kind = "object"
    /\ call.claim = "true"
    /\ call.score < agent_eval_threshold

\* C4: when the evaluator's response claims sufficient = true with a score
\* below the threshold, the EvalResult has sufficient = false and the loop
\* is not left for sufficiency on that evaluation.
C4_ThresholdOverride ==
    /\ [](ClaimedTrueBelow => ~Last(eval_history).sufficient)
    /\ [][ClaimedTrueBelow => loopExit' # "sufficient"]_vars
C4_Witness == ClaimedTrueBelow /\ Truthy(Last(eval_history).gaps)

\* C5: on a non-failure path (the backend responded, the response parsed)
\* sufficient is true exactly when score >= threshold.
C5_SufficientIsThreshold ==
    (call.op = "evaluate" /\ call.kind = "object") =>
        (Last(eval_history).sufficient
            <=> Last(eval_history).score >= agent_eval_threshold)

\* a "gaps" value of the expected type: a list of strings
WellTypedGaps(g) == g.kind = "list" /\ \A i \in 1..Len(g.items) : IsStr(g.items[i])

\* C6: a response that cannot be parsed into the expected structure (not
\* JSON, JSON of another shape, fields of the wrong type) gives the zero
\* result: score 0, no gaps, sufficient = false.
C6_UnparsableIsZero ==
    (/\ call.op = "evaluate"
     /\ \/ call.kind \in {"notjson", "nonobject", "badtype"}
        \/ (call.kind = "object" /\ ~WellTypedGaps(Last(eval_history).gaps)))
        => Last(eval_history) = ZeroResult(ListValue(<<>>))

\* C7: the Evaluator shows no failed StepResult to the judge, and when all
\* accumulated StepResults are failed (or there are none) it calls no backend
\* and returns score 0, sufficient = false and the goal as the only gap.
C7_FailedFiltered ==
    call.op = "evaluate" =>
        /\ \A i \in 1..Len(call.shown) : ~call.shown[i].failed
        /\ \A i \in 1..Len(results) :
               ~results[i].failed => \E j \in 1..Len(call.shown) : call.shown[j] = results[i]
        /\ AllFailed(results) =>
               /\ ~call.called
               /\ Last(eval_history) = EvalResult(0, 0, 0, ListValue(<<goal>>), FALSE)
C7_Witness ==
    /\ call.op = "evaluate"
    /\ Len(results) >= 2
    /\ AllFailed(results)
    /\ Last(eval_history).gaps = ListValue(<<goal>>)

\* C8: whatever the reason the loop is left, the run ends with the
\* Synthesizer called exactly once over all accumulated StepResults, its
\* answer in state.final_answer, and exactly one final event, the last one.
C8_SynthesisAlways ==
    (loopExit # "none" /\ pc # "synth") =>
        /\ synthCalls = 1
        /\ (call.op = "synthesize" => call.shown = results)
        /\ final_answer # NoAnswer
        /\ CountEvents("final") = 1
        /\ Last(events).type = "final"

\* C9: with a StepResult that is not failed, a failing synthesis call does
\* not raise: the answer is the concatenation of the surviving pairs, given
\* with the deduplicated context, and the final event follows.
C9_SynthesisFallback ==
    (call.op = "synthesize" /\ call.called /\ call.kind # "text") =>
        /\ pc = "final"
        /\ final_answer = ConcatAnswer(GoodResults(results))
        /\ call.context = FormatContextBlocks(GoodResults(results))
        /\ Last(events).type = "final"

\* C10: Executor.execute never raises; the StepResult is failed, with the
\* error sentinel as answer, exactly when the generation call failed, and
\* the task ends as failed then and as done otherwise.
C10_ExecuteNeverRaises ==
    call.op = "execute" =>
        /\ pc # "raised"
        /\ (Last(results).failed <=> call.kind = "llm_error")
        /\ (Last(results).failed <=> StartsWithError(Last(results).answer))
        /\ plan[idx - 1].status = (IF Last(results).failed THEN "failed" ELSE "done")

\* C11: whatever the backend answers, Planner.plan returns at least one and
\* at most max_tasks SubTasks; when the call fails, the output is not the
\* expected JSON object or holds no usable sub-question, the plan is the
\* single SubTask with id 0 and the goal as query.
C11_PlanSize ==
    call.op = "plan" =>
        /\ Len(plan) >= 1
        /\ Len(plan) <= MaxSubtasks
        /\ (call.kind # "object" \/ call.claim = "unusable") =>
               plan = <<SubTask(0, goal)>>

\* the step_result events yielded so far, in order
StepResultEvents == SelectSeq(events, LAMBDA e : e.type = "step_result")

\* C12: state.results only grows by appending: every step leaves the old list
\* as a prefix of the new one; it holds one StepResult per step_result event
\* of the whole run, in order; every Evaluator call is given all of them (it
\* shows the judge every one that is not failed, whatever its iteration) and
\* the Synthesizer call is given the full list.
C12_AppendOnly ==
    /\ [][/\ Len(results') >= Len(results)
          /\ SubSeq(results', 1, Len(results)) = results]_vars
    /\ [](/\ Len(results) = Len(StepResultEvents)
          /\ \A i \in 1..Len(results) :
                 /\ results[i].task_id = StepResultEvents[i].task_id
                 /\ results[i].failed = StepResultEvents[i].failed
          /\ call.op = "evaluate" => call.shown = GoodResults(results)
          /\ call.op = "synthesize" => call.shown = results)
\* the evaluation of iteration 2 was shown results of iterations 1 and 2
C12_Witness ==
    /\ call.op = "evaluate"
    /\ iterations = 2
    /\ \E i, j \in 1..Len(StepResultEvents) :
          /\ StepResultEvents[i].iteration = 1
          /\ StepResultEvents[j].iteration = 2
          /\ ~results[i].failed /\ ~results[j].failed
          /\ \E k, l \in 1..Len(call.shown) :
                k < l /\ call.shown[k] = results[i] /\ call.shown[l] = results[j]

\* C13: when a run finishes, whatever the reason the loop was left, the
\* length of state.eval_history equals state.iterations, the value the final
\* event reports as 'iterations'.
C13_HistoryLength ==
    pc = "done" =>
        /\ Len(eval_history) = iterations
        /\ Last(events).type = "final"
        /\ Last(events).iteration = iterations

\* C14: the run never waits for a consumer: whether or not the caller still
\* takes events, a run that has not ended can take its next step, and once
\* the caller has stopped reading the run still reaches its end with
\* final_answer set.
C14_SafeToDrop ==
    /\ pc \notin {"done", "raised"} => ENABLED Resume
    /\ (consumer = "stopped" /\ ~ENABLED Resume) =>
           (pc = "done" /\ final_answer # NoAnswer)

\* the single run of Spec as a run state
OwnRunState ==
    [goal |-> goal, iterations |-> iterations, plan |-> plan, results |-> results,
     eval_history |-> eval_history, final_answer |-> final_answer, pc |-> pc,
     idx |-> idx, events |-> events]
\* under Spec: the steps of the single run are the steps RunSteps gives
RunStepsAgree ==
    [][OwnRunState' \in RunSteps(OwnRunState, max_iter, retrieval_up, PlanResponses,
                                 GenOutcomes, EvalResponses, SynthOutcomes)]_vars

\* the steps a run takes when it is the only one
AloneSteps(st) ==
    RunSteps(st, max_iter, retrieval_up, DuoPlanResponses, DuoGenOutcomes,
             DuoEvalResponses, DuoSynthOutcomes)
OtherRun(r) == 3 - r

\* C15: when two runs of one DocumentAgent instance are interleaved, every
\* step is a step of one run on its own AgentState, the step that run could
\* take alone, and leaves the other run's state as it was; the results and
\* eval_history of a run hold exactly what the Executor and the Evaluator
\* returned to that run, and its events report its own results.
C15_Isolation ==
    /\ [](\A r \in Runs :
            /\ runs[r].goal = RunGoals[r]
            /\ runs[r].results = made[r].results
            /\ runs[r].eval_history = made[r].evals
            /\ LET sr == SelectSeq(runs[r].events, LAMBDA e : e.type = "step_result") IN
               /\ Len(sr) = Len(made[r].results)
               /\ \A i \in 1..Len(sr) :
                      /\ sr[i].task_id = made[r].results[i].task_id
                      /\ sr[i].failed = made[r].results[i].failed)
    /\ [][\E r \in Runs :
            /\ runs'[OtherRun(r)] = runs[OtherRun(r)]
            /\ made'[OtherRun(r)] = made[OtherRun(r)]
            /\ runs'[r] \in AloneSteps(runs[r])]_vars
\* both runs under way, one in its second iteration, with different results
C15_Witness ==
    /\ runs[1].pc = "step"
    /\ Len(runs[1].results) >= 1
    /\ runs[2].pc = "check"
    /\ runs[2].iterations = 2
    /\ Len(runs[2].results) >= 2
    /\ runs[1].results # runs[2].results

\* C16: when the Analyzer sets prefer_agent (complexity_score >= 0.55),
\* run_smart_chat goes to the agent path at once: no retrieval, rerank,
\* sufficiency judgment or direct generation is made for the request, the
\* agent runs once and a result has pipeline "agent"; no other request gets
\* that pipeline.
C16_PreferAgent ==
    chat_pc # "start" =>
        /\ analysis.prefer_agent <=> analysis.complexity_score >= PreferAgentScore
        /\ analysis.prefer_agent =>
              /\ chat_pc \in {"agent", "returned", "raised"}
              /\ chatCalls.retrieve = 0 /\ chatCalls.rerank = 0
              /\ chatCalls.judge = 0 /\ chatCalls.generate = 0
              /\ chatCalls.agent = (IF chat_pc = "agent" THEN 0 ELSE 1)
              /\ chat_result.status = "returned" => chat_result.pipeline = "agent"
        /\ chat_result.pipeline = "agent" => analysis.prefer_agent
C16_Witness ==
    /\ chat_result.status = "returned"
    /\ chat_result.pipeline = "agent"
    /\ analysis.complexity_score >= PreferAgentScore
    /\ chatCalls.agent = 1

\* the request was escalated to the agent after the judge
Escalated == chat_pc = "escalate" \/ chatCalls.agent = 1
ChatEnded == chat_pc \in {"returned", "raised"}

\* C17: on the single-pass path, once the Judge has reported, the request
\* is escalated to the agent exactly when the Judge says insufficient and
\* complexity_score >= 0.35, and a result then has pipeline "agent_fallback"
\* with the Judge's reason; otherwise exactly one direct generation call is
\* made, with the reranked context, and a result has pipeline "rag". The
\* agent runs at most once per request.
C17_Escalation ==
    /\ chatCalls.agent <= 1
    /\ chatCalls.judge <= 1
    /\ chatCalls.judge = 1 =>
          /\ ~analysis.prefer_agent
          /\ Escalated <=> (/\ ~context_eval.sufficient
                            /\ analysis.complexity_score >= EscalateScore)
          /\ Escalated => chatCalls.generate = 0
          /\ (Escalated /\ chat_result.status = "returned") =>
                /\ chat_result.pipeline = "agent_fallback"
                /\ chat_result.judge_reason = context_eval.reason
          /\ (~Escalated /\ ChatEnded) => chatCalls.generate = 1
          /\ (~Escalated /\ chat_result.status = "returned") =>
                /\ chat_result.pipeline = "rag"
                /\ chat_result.context = judge_input.contexts
    /\ chat_result.pipeline \in {"agent_fallback", "rag"} => chatCalls.judge = 1
C17_Witness ==
    /\ chat_result.status = "returned"
    /\ chat_result.pipeline = "agent_fallback"
    /\ chat_result.judge_reason = "Low rerank confidence"
    /\ analysis.complexity_score >= EscalateScore
    /\ analysis.complexity_score < PreferAgentScore
    /\ chatCalls.agent = 1

\* C18: on the agent path and on the single-pass path a failure of the
\* history provider is swallowed: the history is None and the request goes
\* on; it does not end the request.
C18_HistorySwallowed ==
    chatCalls.historyFailed > 0 =>
        /\ history = "none"
        /\ chat_pc = "raised" => chatCalls.agent + chatCalls.retrieve > 0

\* the three conditions of evaluate_context on its input
ChunksCharsCoverage ==
    /\ Len(judge_input.contexts) >= context_min_chunks
    /\ SumLen(judge_input.contexts) >= context_min_chars
    /\ context_eval.coverage.hit * 100 >= context_min_coverage * context_eval.coverage.of
OverrideApplies == judge_input.avg.given /\ judge_input.avg.value < LowConfidence

\* C19: with no rerank-confidence override in effect, evaluate_context is
\* sufficient exactly when the number of contexts is at least min_chunks,
\* their total length at least min_chars and the coverage at least
\* min_coverage (all three inclusive); the coverage reported is the share of
\* the query terms found in the contexts.
C19_InclusiveThresholds ==
    (chat_pc = "judged" /\ ~OverrideApplies) =>
        /\ context_eval.sufficient <=> ChunksCharsCoverage
        /\ (judge_input.terms > 0 /\ judge_input.contexts # <<>>) =>
              context_eval.coverage = [hit |-> judge_input.hits, of |-> judge_input.terms]
\* exactly at the three thresholds: sufficient
C19_Witness ==
    /\ chat_pc = "judged"
    /\ ~OverrideApplies
    /\ Len(judge_input.contexts) = context_min_chunks
    /\ SumLen(judge_input.contexts) = context_min_chars
    /\ judge_input.terms > 0
    /\ judge_input.hits * 100 = context_min_coverage * judge_input.terms
    /\ context_eval.sufficient

\* C20: when an average rerank score is given and is below 0.28,
\* evaluate_context is not sufficient whatever the three conditions say;
\* with a score of 0.28 or more, or with no score, the result is what the
\* three conditions give and the reason is not the low-confidence one.
C20_LowConfidenceOverride ==
    chat_pc = "judged" =>
        /\ OverrideApplies => ~context_eval.sufficient
        /\ (OverrideApplies /\ judge_input.contexts # <<>>) =>
              context_eval.reason = "Low rerank confidence"
        /\ ~OverrideApplies =>
              /\ context_eval.reason # "Low rerank confidence"
              /\ context_eval.sufficient <=> ChunksCharsCoverage
\* the three conditions hold and the score is just below 0.28
C20_Witness ==
    /\ chat_pc = "judged"
    /\ judge_input.avg = Score(LowConfidence - 1)
    /\ ChunksCharsCoverage
    /\ ~context_eval.sufficient

\* the score the queries' lists give a chunk when the list of the first
\* query of expanded_queries weighs 1.0 and the list of every other query 0.9
WeightedByQuery(x) == FusedScore(rows_by_query, x, 1)
Retrieved == Range(Concat(rows_by_query))
PlaceIn(rows, x) == CHOOSE i \in 1..Len(rows) : rows[i] = x
TwoDisjointLists ==
    /\ Len(rows_by_query) = 2
    /\ rows_by_query[1] # <<>>
    /\ Len(rows_by_query[1]) = Len(rows_by_query[2])
    /\ Range(rows_by_query[1]) \cap Range(rows_by_query[2]) = {}

\* C21: retrieve_expanded orders the chunks by descending sum of
\* weight / (60 + rank), rank from 1, the weight being 1.0 for the list of the
\* first (original) query and 0.9 for the list of every expansion; for two
\* non-overlapping lists of equal length the result starts with the top item
\* of the first list; the result has at most candidate_k items.
C21_Fusion ==
    fuse_pc = "done" =>
        /\ Len(fuse_result) <= fuse_call.candidate_k
        /\ Range(fuse_result) \subseteq Retrieved
        /\ \A x, y \in Retrieved :
              (WeightedByQuery(x) > WeightedByQuery(y) /\ y \in Range(fuse_result)) =>
                 /\ x \in Range(fuse_result)
                 /\ PlaceIn(fuse_result, x) < PlaceIn(fuse_result, y)
        /\ TwoDisjointLists => fuse_result[1] = rows_by_query[1][1]

\* what the two signals of the call yield
DenseYield == IF ret_call.dense.kind = "rows" THEN ret_call.dense.rows ELSE <<>>
LexicalYield ==
    IF ret_call.keyword.kind = "rows" THEN ret_call.keyword.rows
    ELSE ret_call.keyword.fallback
\* the k newest chunks of the caller, oldest first
NewestK ==
    SubSeq(ret_call.corpus,
           Len(ret_call.corpus) - Min(ret_call.k, Len(ret_call.corpus)) + 1,
           Len(ret_call.corpus))
RetrieveEnded == ret_pc \in {"done", "raised"}

\* C22: retrieve(query, scope, k) returns the rank-fused list when both the
\* dense and the lexical signal yield results, the top k of the only signal
\* that yields results, in its own order, when one does, and the k most
\* recently added chunks of the scope, oldest first, when neither does; it
\* returns at most k items in every case.
C22_RetrieveCases ==
    RetrieveEnded =>
        /\ ret_pc = "done"
        /\ Len(ret_result) <= ret_call.k
        /\ ret_result =
              IF DenseYield # <<>> /\ LexicalYield # <<>>
              THEN HybridMerge(DenseYield, LexicalYield, ret_call.k)
              ELSE IF DenseYield # <<>> THEN FirstK(DenseYield, ret_call.k)
              ELSE IF LexicalYield # <<>> THEN FirstK(LexicalYield, ret_call.k)
              ELSE NewestK

\* C23: any failure of dense search (the embedding service, or the
\* similarity query) is caught inside retrieve: the dense signal counts as
\* absent, retrieval goes on with the lexical signal or the recency
\* fallback, and retrieve does not raise.
C23_DenseFailureCaught ==
    (ret_call.dense.kind \in {"embedding_error", "query_error"} /\ ~ret_call.blank) =>
        /\ ret_pc # "raised"
        /\ ret_pc \in {"keyword", "merge", "done"} => dense_results = <<>>
        /\ ret_pc = "done" =>
              ret_result = IF LexicalYield # <<>> THEN FirstK(LexicalYield, ret_call.k)
                           ELSE NewestK

\* where a returned item stood among the candidates
CandidatePlace(item) ==
    CHOOSE p \in 1..Len(rank_call.contexts) : rank_call.contexts[p].content = item.content
Returned == { rank_result[i].content : i \in 1..Len(rank_result) }

\* C24: rerank(query, candidates, k) returns min(k, n) of the n candidates,
\* the best scored ones, in order of non-increasing final score; candidates
\* of equal final score keep their original relative order; every returned
\* item is one of the candidates.
C24_RerankOrder ==
    rank_pc = "done" =>
        /\ Len(rank_result) = Min(rank_call.k, Len(rank_call.contexts))
        /\ \A i \in 1..Len(rank_result) :
              /\ \E p \in 1..Len(rank_call.contexts) :
                    rank_call.contexts[p].content = rank_result[i].content
              /\ rank_result[i].score =
                    FinalScore(rank_call.contexts[CandidatePlace(rank_result[i])],
                               rank_call.terms, have_vectors)
        /\ \A i, j \in 1..Len(rank_result) :
              i < j =>
                 /\ rank_result[i].score >= rank_result[j].score
                 /\ rank_result[i].content # rank_result[j].content
                 /\ rank_result[i].score = rank_result[j].score =>
                       CandidatePlace(rank_result[i]) < CandidatePlace(rank_result[j])
        /\ \A p \in 1..Len(rank_call.contexts), i \in 1..Len(rank_result) :
              rank_call.contexts[p].content \notin Returned =>
                 FinalScore(rank_call.contexts[p], rank_call.terms, have_vectors)
                    <= rank_result[i].score
\* three candidates, two asked for: the first candidate scores lowest and is
\* left out, the other two tie and come back in their original order
C24_Witness ==
    /\ rank_pc = "done"
    /\ Len(rank_call.contexts) = 3
    /\ rank_call.k = 2
    /\ Len(rank_result) = 2
    /\ rank_result[1].content = rank_call.contexts[2].content
    /\ rank_result[2].content = rank_call.contexts[3].content
    /\ rank_result[1].score = rank_result[2].score
    /\ rank_result[1].score > 0

\* C25: when the embedding backend fails for the query or for the
\* candidates the reranker does not raise: every candidate gets semantic
\* score 0 and is scored and ordered by the lexical and length components
\* alone, also when only the embedding of the candidates failed.
C25_DegradesToLexical ==
    (rank_call.embed \in EmbedCaught \cup EmbedUncaught /\ rank_call.contexts # <<>>) =>
        /\ rank_pc # "raised"
        /\ rank_pc = "done" =>
              /\ Len(rank_result) = Min(rank_call.k, Len(rank_call.contexts))
              /\ \A i \in 1..Len(rank_result) :
                    /\ rank_result[i].semantic_score = 0
                    /\ rank_result[i].score =
                          FinalScore(rank_call.contexts[CandidatePlace(rank_result[i])],
                                     rank_call.terms, FALSE)
              /\ \A i, j \in 1..Len(rank_result) :
                    i < j => rank_result[i].score >= rank_result[j].score


(***************************************************************************)
(* The compare request, end to end (CompareSpec)                           *)
(***************************************************************************)
\* the planner gave the two sub-questions, the executor answered both and
\* the evaluator scored the first iteration above the threshold
TwoAnsweredAndScored ==
    /\ Len(results) >= 2
    /\ results[1].query = "q1" /\ ~results[1].failed
    /\ results[2].query = "q2" /\ ~results[2].failed
    /\ Len(eval_history) >= 1
    /\ eval_history[1].score = CompareScore
\* the decision after the evaluation has been taken
PastTheCheck == ~(pc = "check" /\ Len(eval_history) = 1)
\* the chunks of both sub-answers, each once
BothContexts == <<"c2", "c3", "c4">>

\* C26: the request "Compare the retry strategy and the timeout strategy"
\* has a complexity score of at least 0.55 and goes straight to the agent
\* path; when the planner returns two sub-questions, both are answered and
\* the evaluator scores 8 against the threshold 7, the loop stops after
\* iteration 1 (one plan, two steps, one evaluation) and the synthesizer
\* returns one answer with the deduplicated contexts of both sub-answers.
C26_CompareScenario ==
    /\ chat_pc # "start" =>
         /\ analysis.complexity_score >= PreferAgentScore
         /\ chat_pc \in {"agent", "in_agent", "returned", "raised"}
         /\ chatCalls.retrieve = 0 /\ chatCalls.judge = 0
    /\ (TwoAnsweredAndScored /\ PastTheCheck) =>
         /\ iterations = 1
         /\ plannerCalls = 1
         /\ Len(results) = 2
         /\ Len(eval_history) = 1
         /\ pc \in {"synth", "final", "done"}
         /\ pc = "final" =>
              /\ final_answer.kind \in {"llm", "concat"}
              /\ call.context = BothContexts
         /\ chat_pc = "returned" =>
              /\ chat_result.pipeline = "agent"
              /\ chat_result.context = BothContexts

(***************************************************************************)
(* A user without documents, end to end (EmptyCorpusSpec)                  *)
(***************************************************************************)
\* C27: with an empty corpus and any goal, every retrieval returns no
\* chunk, the judge reports insufficient with coverage 0.0 and the reason
\* "No chunks retrieved", and the synthesizer returns the fixed
\* insufficient-information message with an empty context list.
C27_EmptyCorpus ==
    /\ judge_input.contexts = <<>>
    /\ \A i \in 1..Len(results) : results[i].context = <<>>
    /\ chatCalls.judge > 0 =>
         /\ ~context_eval.sufficient
         /\ context_eval.coverage.hit = 0
         /\ context_eval.reason = "No chunks retrieved"
    /\ (pc = "final" /\ call.op = "synthesize") =>
         /\ final_answer = InsufficientMessage
         /\ call.context = <<>>
    /\ chat_pc = "returned" => chat_result.context = <<>>

(***************************************************************************)
(* Synthesizer.synthesize and failed results (Spec)                        *)
(***************************************************************************)
Survivors == { i \in 1..Len(results) : ~results[i].failed }
SurvivingChunks == UNION { Range(results[i].context) : i \in Survivors }
SynthesizeReturned == pc = "final" /\ call.op = "synthesize"

\* C28: when no non-failed StepResult exists (all failed, or none at all)
\* Synthesizer.synthesize makes no generation call and returns the fixed
\* insufficient-information message with an empty context list; a failed
\* StepResult contributes neither its answer nor its context to what is
\* returned.
C28_NoSurvivors ==
    /\ (call.op = "synthesize" /\ Survivors = {}) =>
         /\ ~call.called
         /\ SynthesizeReturned
         /\ final_answer = InsufficientMessage
         /\ call.context = <<>>
    /\ SynthesizeReturned =>
         /\ Range(call.context) = SurvivingChunks
         /\ Cardinality(Range(call.context)) = Len(call.context)
         /\ final_answer.kind = "concat" =>
              /\ Len(final_answer.sections) = Cardinality(Survivors)
              /\ \A s \in Range(final_answer.sections) :
                   \E i \in Survivors : s = <<results[i].query, results[i].answer>>
\* every step failed after its retrieval had found chunks, and the
\* synthesizer returned
C28_Witness ==
    /\ SynthesizeReturned
    /\ Len(results) >= 2
    /\ Survivors = {}
    /\ \A i \in 1..Len(results) : results[i].context # <<>>

(***************************************************************************)
(* chunk_text (ChunkSpec)                                                  *)
(***************************************************************************)
AcceptedPair == chunk_size >= min_chunk_size /\ overlap < chunk_size

\* C29: for every text and every accepted pair (chunk_size >= 200,
\* overlap < chunk_size), every chunk that chunk_text collects, and so
\* every chunk it returns, is non-empty and has at most chunk_size
\* characters.
C29_ChunkBounds ==
    AcceptedPair =>
        \A i \in 1..Len(chunks) : Len(chunks[i]) >= 1 /\ Len(chunks[i]) <= chunk_size
\* a text cut into a full chunk and a shorter one, with an overlap
C29_Witness ==
    /\ AcceptedPair
    /\ overlap > 0
    /\ chunk_pc = "returned"
    /\ \E i, j \in 1..Len(chunks) :
         Len(chunks[i]) = chunk_size /\ Len(chunks[j]) < chunk_size

\* C30: whenever overlap >= chunk_size, chunk_text raises ValueError and
\* returns no chunks, whatever the text.
C30_RejectsOverlap ==
    (overlap >= chunk_size /\ chunk_pc # "start") =>
        (chunk_pc = "raised" /\ chunks = <<>>)

(***************************************************************************)
(* The planner's SubTasks and the steps of an iteration (Spec)             *)
(***************************************************************************)
\* the gaps the last planning pass from gaps was given
LastGaps == Last(eval_history).gaps
\* the plan event of a planning pass from gaps has just been yielded
PlannedFromGaps == pc = "exec" /\ idx = 1 /\ iterations > 1 /\ Last(events).type = "plan"

\* C32: within one planning pass the SubTask ids are unique and are exactly
\* 0, 1, ..., n-1 in list order, n being the number of SubTasks returned,
\* also when blank entries were dropped.
C32_SequentialIds ==
    \A j \in 1..Len(plan) : plan[j].id = j - 1

\* the first max_tasks gaps and the places of those that are not blank
GapsShown == Truncate(LastGaps.items, MaxSubtasks)
VisibleGaps == { i \in 1..Len(GapsShown) : Strip(GapsShown[i]) # "" }

\* C33: plan_from_gaps makes no backend call and maps the gap descriptions
\* one to one to SubTasks in gap order: every SubTask's query is one
\* non-blank gap, stripped; no gap yields two tasks, blank gaps yield none,
\* and at most max_tasks SubTasks are returned.
C33_GapsOneToOne ==
    PlannedFromGaps =>
        /\ ~call.called
        /\ Len(plan) <= MaxSubtasks
        /\ Len(plan) = Cardinality(VisibleGaps)
        /\ \E place \in [1..Len(plan) -> 1..Len(LastGaps.items)] :
             /\ \A i, j \in 1..Len(plan) : i < j => place[i] < place[j]
             /\ \A j \in 1..Len(plan) :
                  /\ Strip(LastGaps.items[place[j]]) # ""
                  /\ plan[j].query = Strip(LastGaps.items[place[j]])
\* more gaps than max_tasks were given and a plan came of them
C33_Witness ==
    /\ PlannedFromGaps
    /\ Len(LastGaps.items) > MaxSubtasks
    /\ Len(plan) = MaxSubtasks

\* the place of the last plan event and the events yielded after it
LastPlanAt == CHOOSE i \in 1..Len(events) :
                 events[i].type = "plan" /\ \A j \in (i + 1)..Len(events) : events[j].type # "plan"
SincePlan == SubSeq(events, LastPlanAt + 1, Len(events))
\* the StepResults appended since the last plan event
AddedSincePlan ==
    LET n == Cardinality({ i \in 1..Len(SincePlan) : SincePlan[i].type = "step_result" })
    IN IF n > Len(results) THEN <<>>
       ELSE SubSeq(results, Len(results) - n + 1, Len(results))
InIteration == pc \in {"exec", "step"}

RECURSIVE ReadEvents(_)
ReadEvents(n) ==
    IF n = 0 THEN "top"
    ELSE LET at == ReadEvents(n - 1)
             e == events[n]
         IN CASE at = "top" /\ e.type = "plan" -> "tasks"
              [] at = "top" /\ e.type = "final" -> "end"
              [] at = "tasks" /\ e.type = "step_start" -> "started"
              [] at = "tasks" /\ e.type = "eval" -> "top"
              [] at = "started" /\ e.type = "step_result"
                   /\ e.task_id = events[n - 1].task_id -> "tasks"
              [] OTHER -> "bad"
IterationsNeverDecrease ==
    \A i, j \in 1..Len(events) : i < j => events[i].iteration <= events[j].iteration

\* C35: the events of every run read (plan (step_start step_result)* eval)*
\* final: one plan event opens an iteration, each task gives a step_start
\* followed at once by the step_result of the same task, one eval event
\* closes the iteration, the iteration numbers never decrease and final is
\* the last event.
C35_EventOrder ==
    /\ ReadEvents(Len(events)) # "bad"
    /\ IterationsNeverDecrease
    /\ Terminated => ReadEvents(Len(events)) = "end"

(***************************************************************************)
(* The context list of the final answer (CompareSpec)                      *)
(***************************************************************************)
\* the snippets of the non-failed StepResults in accumulation order, with
\* their repetitions
SnippetsInOrder ==
    AllChunks(SelectSeq(results, LAMBDA r : ~r.failed))
\* where a snippet is seen first, and how many distinct snippets were seen
\* up to there
FirstPlace(x) ==
    CHOOSE i \in 1..Len(SnippetsInOrder) :
        SnippetsInOrder[i] = x /\ \A j \in 1..(i - 1) : SnippetsInOrder[j] # x
SeenUpTo(i) == { SnippetsInOrder[j] : j \in 1..i }

\* C36: the context list that synthesize returns, and that the final event
\* carries, holds each distinct snippet of the non-failed StepResults
\* exactly once, in the order in which they are first seen across the
\* results; the citation number of a snippet is its place in that list,
\* counted from 1.
OnceInOrder(ctx) ==
    /\ Range(ctx) = Range(SnippetsInOrder)
    /\ \A n \in 1..Len(ctx) :
          /\ ctx[n] \in Range(SnippetsInOrder)
          /\ Cardinality(SeenUpTo(FirstPlace(ctx[n]))) = n
C36_ContextOnce ==
    /\ SynthesizeReturned => OnceInOrder(call.context)
    /\ (chat_pc = "returned" /\ chat_result.pipeline \in {"agent", "agent_fallback"}) =>
          OnceInOrder(chat_result.context)
\* two sub-answers share a snippet and each has one of its own
C36_Witness ==
    /\ SynthesizeReturned
    /\ Len(call.context) = 3
    /\ Len(SnippetsInOrder) > 3

\* C39: for every text and every accepted pair, from one pass of the loop
\* of chunk_text to the next the start position strictly increases and is
\* never negative, so the loop reaches the end of the text after finitely
\* many chunks.
C39_StartAdvances ==
    [][(AcceptedPair /\ chunk_pc = "loop" /\ chunk_pc' = "loop") =>
          (start' > start /\ start' >= 0)]_vars

(***************************************************************************)
(* The run with every generation call failing (GenDownSpec)                *)
(***************************************************************************)
PlannedQueries == [j \in 1..Len(plan) |-> <<plan[j].id, plan[j].query>>]
\* the task list of an iteration under way
Planning == pc \in {"exec", "step", "check"}
AllZeroWithGoal ==
    \A i \in 1..Len(eval_history) : eval_history[i] = ZeroResult(ListValue(<<goal>>))
\* the run is over: the whole budget used, the fixed message, no context
EndsInsufficient ==
    /\ pc # "raised"
    /\ AllFailed(results)
    /\ AllZeroWithGoal
    /\ pc \in {"final", "done"} =>
          /\ iterations = max_iter
          /\ Len(eval_history) = max_iter
          /\ final_answer = InsufficientMessage
          /\ synthCalls = 1
    /\ SynthesizeReturned => (~call.called /\ call.context = <<>>)

\* C38 as stated: with every generation call failing the run ends without
\* raising, each iteration executes the single fallback task holding the
\* raw goal, every StepResult is failed, every EvalResult is the zero
\* result with the goal as its only gap, iterations = max_iterations at the
\* end and the final answer is the fixed message with an empty context.
C38_RawGoalEveryIteration ==
    /\ EndsInsufficient
    /\ Planning => PlannedQueries = << <<0, goal>> >>

\* C38, amended: as above, except that only the first iteration executes
\* the task holding the raw goal; a later iteration executes the single
\* task holding the goal without its surrounding blanks, and no task at
\* all when the goal is blank.
C38_GenerationDown ==
    /\ EndsInsufficient
    /\ (Planning /\ iterations = 1) => PlannedQueries = << <<0, goal>> >>
    /\ (Planning /\ iterations > 1) =>
          PlannedQueries = IF Strip(goal) = "" THEN <<>> ELSE << <<0, Strip(goal)>> >>
    /\ pc = "done" =>
          Len(results) = IF max_iter = 0 THEN 0
                         ELSE IF Strip(goal) = "" THEN 1 ELSE max_iter
\* a goal with blanks around it, run to the end of a budget of several
\* iterations
C38_Witness ==
    /\ pc = "done"
    /\ goal # Strip(goal)
    /\ Strip(goal) # ""
    /\ iterations = agent_max_iterations
    /\ Len(results) = agent_max_iterations
    /\ final_answer = InsufficientMessage

(***************************************************************************)
(* The persisted AgentRun of a streamed run (ApiSpec)                      *)
(***************************************************************************)
Streamed(type) == \E i \in 1..Len(sse) : sse[i] = type
\* the error line, when there is one, is the last line
ErrorInPlace == \A i \in 1..Len(sse) : sse[i] = "error" => i = Len(sse)

\* C37: the AgentRun row of a streamed run leaves status "running" when the
\* stream ends and not before; it is "failed" exactly when an error line
\* was streamed in place of continuing, and then no final line was; it is
\* "completed" only if the final line was streamed and its answer stored,
\* also when the client stops reading before the run is over.
C37_RunStatus ==
    /\ persisted_run.status \in {"running", "completed", "failed"}
    /\ persisted_run.status # "running" <=> api_pc = "closed"
    /\ ErrorInPlace
    /\ Streamed("error") => ~Streamed("final")
    /\ api_pc = "closed" => (persisted_run.status = "failed" <=> Streamed("error"))
    /\ persisted_run.status = "completed" =>
          /\ Streamed("final")
          /\ persisted_run.final_answer = final_answer
          /\ persisted_run.final_answer # NoneAnswer

(***************************************************************************)
(* Retrieval stays within the requesting user's chunks (ScopeSpec)         *)
(***************************************************************************)
\* the table without the rows of the other users' documents
OwnTable == SelectSeq(chunk_table, LAMBDA r : r.user_id = fuse_call.user_id)
OwnContents == { OwnTable[i].content : i \in 1..Len(OwnTable) }
\* what the whole call returns on a table
RECURSIVE RowsPerQuery(_, _)
RowsPerQuery(table, n) ==
    IF n = 0 THEN <<>>
    ELSE Append(RowsPerQuery(table, n - 1),
                RetrieveFrom(table, fuse_call.queries[n], fuse_call.user_id,
                             fuse_call.candidate_k).rows)
NonEmpty(lists) == SelectSeq(lists, LAMBDA rows : rows # <<>>)

\* C40: on every path of retrieve_context and of retrieve_expanded_context
\* the rows returned are contents of chunks of the requesting user's
\* documents, and they are the rows returned on the table without the
\* other users' documents: adding, removing or changing those documents
\* changes nothing.
C40_UserScope ==
    /\ \A n \in 1..Len(rows_by_query) :
          /\ Range(rows_by_query[n]) \subseteq OwnContents
          /\ rows_by_query[n] = RowsPerQuery(OwnTable, n)[n]
    /\ fuse_pc = "done" =>
          /\ Range(fuse_result) \subseteq OwnContents
          /\ fuse_result =
                IF fuse_call.queries = <<>> THEN <<>>
                ELSE FuseRanked(NonEmpty(RowsPerQuery(OwnTable, Len(fuse_call.queries))),
                                fuse_call.candidate_k)
\* two variants fused for a user whose chunks are outranked by another
\* user's on every search
C40_Witness ==
    /\ fuse_pc = "done"
    /\ Len(all_ranked) = 2
    /\ all_ranked[1] # all_ranked[2]
    /\ Len(chunk_table) = Len(AllRows)
    /\ fuse_call.user_id = 1
    /\ fuse_result # <<>>
    /\ \E n \in 1..Len(fuse_call.queries) : fuse_call.queries[n].fts = "error"

(***************************************************************************)
(* register, login and /me (AuthSpec)                                      *)
(***************************************************************************)
\* the successful registers that were given this email and this password
RegisteredAs(email, password) ==
    { r \in registered : r.email = email /\ r.password = password }
\* some successful register was given this email, up to the case of its
\* letters, with this password
Matches(email, password) ==
    \E r \in registered : Lower(r.email) = Lower(email) /\ r.password = password

\* C31: once register(email, password) has succeeded, a login with the same
\* email and password succeeds, and a token that login returns
\* authenticates /me, while it has not expired, as the user that register
\* created, with that user's email; a login with a wrong password or an
\* unregistered email is answered 401 without a token; registering an
\* email that is already registered is answered 409 and no second user
\* with that email exists.
C31_AuthFlow ==
    /\ auth_response.op = "login" =>
          /\ \A r \in RegisteredAs(auth_response.email, auth_response.password) :
                /\ auth_response.status = 200
                /\ auth_response.token \in issued
                /\ IntOf(auth_response.token.sub) = r.id
                /\ auth_response.token.email = Lower(r.email)
          /\ ~Matches(auth_response.email, auth_response.password) =>
                auth_response.status = 401 /\ auth_response.token = NoToken
    /\ (auth_response.op = "me" /\ auth_response.credentials \in issued
          /\ auth_response.credentials.exp >= auth_response.at) =>
          /\ auth_response.status = 200
          /\ auth_response.user.id = IntOf(auth_response.credentials.sub)
          /\ auth_response.user.email = auth_response.credentials.email
          /\ \E r \in registered :
                r.id = auth_response.user.id /\ Lower(r.email) = auth_response.user.email
    /\ (auth_response.op = "me" /\ auth_response.credentials \notin issued) =>
          auth_response.status = 401
    /\ (auth_response.op = "register" /\ auth_response.known) =>
          auth_response.status = 409 /\ auth_response.token = NoToken
    /\ \A i, j \in 1..Len(users) : i # j => users[i].email # users[j].email
    /\ Len(users) = Cardinality(registered)
\* the second user registers with capitals in the email, logs in with the
\* email in small letters and reads /me with the token of that login
C31_Witness ==
    /\ auth_response.op = "me"
    /\ auth_response.status = 200
    /\ auth_response.user.id = 2
    /\ auth_response.user.email = "a@x.org"
    /\ [email |-> "A@x.org", password |-> "password2", id |-> 2] \in registered
    /\ auth_response.credentials.exp > TokenLifetime
====
